---- MODULE Spec2Model ----
(***************************************************************************)
(* A model of the pcg_rand generators: the LCG engine (PcgEngine), its     *)
(* stream and multiplier strategies, its output permutations, the minimal  *)
(* Pcg32Basic generator and the jump-ahead operation.                      *)
(*                                                                         *)
(* Unsigned integers of the program are little-endian byte sequences       *)
(* <<b1, ..., bn>> (b1 the least significant byte), so that u32 and u64    *)
(* values keep their width and wrap exactly as the Rust types do; a value  *)
(* of n bytes models an unsigned type of 8*n bits.                         *)
(***************************************************************************)
EXTENDS Integers, Sequences, FiniteSets, TLC

(***************************************************************************)
(* Wrapping numeric operations (numops.rs)                                 *)
(***************************************************************************)

\* BitSize::bits for a value of Len(a) bytes.
Bits(a) == 8 * Len(a)

\* Powers of two up to 2^8, the only ones the byte arithmetic needs.
Pow2(k) ==
    CASE k = 0 -> 1 [] k = 1 -> 2 [] k = 2 -> 4 [] k = 3 -> 8 [] k = 4 -> 16
      [] k = 5 -> 32 [] k = 6 -> 64 [] k = 7 -> 128 [] OTHER -> 256

\* The set of all values of an unsigned type of n bytes.
UInt(n) == [1..n -> 0..255]

\* PcgOps::zero
Zero(n) == [i \in 1..n |-> 0]

\* PcgOps::one
One(n) == [i \in 1..n |-> IF i = 1 THEN 1 ELSE 0]

\* The byte i (1 = lowest) of a machine word v < 2^31.
RECURSIVE WordByte(_, _)
WordByte(v, i) == IF i = 1 THEN v % 256 ELSE WordByte(v \div 256, i - 1)

\* PcgOps::from_usize (val as $t): the low n bytes of the word v.
FromUsize(n, v) == [i \in 1..n |-> IF i > 4 THEN 0 ELSE WordByte(v, i)]

\* Whether the word v is representable in n bytes.
FitsIn(n, v) == n >= 4 \/ (n = 1 /\ v < 256) \/ (n = 2 /\ v < 65536)
                  \/ (n = 3 /\ v < 16777216)

\* The value of a as a natural number, for values below 2^24 only.
ToNat(a) ==
    (IF Len(a) >= 1 THEN a[1] ELSE 0) + (IF Len(a) >= 2 THEN 256 * a[2] ELSE 0)
      + (IF Len(a) >= 3 THEN 65536 * a[3] ELSE 0)

RECURSIVE AddCarry(_, _, _, _)
AddCarry(a, b, i, carry) ==
    IF i > Len(a) THEN <<>>
    ELSE LET t == a[i] + b[i] + carry
         IN  <<t % 256>> \o AddCarry(a, b, i + 1, t \div 256)

\* A faulty addition: the carries between the bytes are dropped.
WrappingAddNoCarry(a, b) == [i \in 1..Len(a) |-> (a[i] + b[i]) % 256]

\* PcgOps::add / wrapping_add: (a + b) mod 2^Bits(a).
WrappingAdd(a, b) == AddCarry(a, b, 1, 0)

RECURSIVE ColSum(_, _, _, _)
ColSum(a, b, k, i) ==
    IF i > k THEN 0 ELSE a[i] * b[k + 1 - i] + ColSum(a, b, k, i + 1)

RECURSIVE MulCols(_, _, _, _)
MulCols(a, b, k, carry) ==
    IF k > Len(a) THEN <<>>
    ELSE LET t == ColSum(a, b, k, 1) + carry
         IN  <<t % 256>> \o MulCols(a, b, k + 1, t \div 256)

\* PcgOps::mul / wrapping_mul: (a * b) mod 2^Bits(a).
WrappingMul(a, b) == MulCols(a, b, 1, 0)

RECURSIVE XorNat(_, _)
XorNat(x, y) ==
    IF x = 0 THEN y
    ELSE IF y = 0 THEN x
    ELSE ((x + y) % 2) + 2 * XorNat(x \div 2, y \div 2)

RECURSIVE OrNat(_, _)
OrNat(x, y) ==
    IF x = 0 THEN y
    ELSE IF y = 0 THEN x
    ELSE (IF x % 2 = 1 \/ y % 2 = 1 THEN 1 ELSE 0) + 2 * OrNat(x \div 2, y \div 2)

\* A faulty xor: the bits are or-ed.
BitXorAsOr(a, b) == [i \in 1..Len(a) |-> OrNat(a[i], b[i])]

\* PcgOps::xor
BitXor(a, b) == [i \in 1..Len(a) |-> XorNat(a[i], b[i])]

\* PcgOps::or
BitOr(a, b) == [i \in 1..Len(a) |-> OrNat(a[i], b[i])]

\* a | 1
OrOne(a) == [a EXCEPT ![1] = IF a[1] % 2 = 0 THEN a[1] + 1 ELSE a[1]]

IsOdd(a) == a[1] % 2 = 1

ByteAt(a, j) == IF j >= 1 /\ j <= Len(a) THEN a[j] ELSE 0

\* Logical right shift a >> k, for 0 <= k (every bit is shifted out when
\* k >= Bits(a); the program only shifts by less than the width).
Shr(a, k) ==
    LET q == k \div 8
        r == k % 8
    IN  [i \in 1..Len(a) |->
            (ByteAt(a, i + q) \div Pow2(r))
              + ((ByteAt(a, i + q + 1) * Pow2(8 - r)) % 256)]

\* Left shift a << k, dropping the bits shifted out of the width.
Shl(a, k) ==
    LET q == k \div 8
        r == k % 8
    IN  [i \in 1..Len(a) |->
            ((ByteAt(a, i - q) * Pow2(r)) % 256)
              + (ByteAt(a, i - q - 1) \div Pow2(8 - r))]

\* rotate_right(k): the rotation amount is taken modulo the width.
RotateRight(a, k) ==
    LET n == Len(a)
        kk == k % Bits(a)
        q == kk \div 8
        r == kk % 8
        cyc(j) == a[((j - 1) % n) + 1]
    IN  [i \in 1..n |->
            (cyc(i + q) \div Pow2(r)) + ((cyc(i + q + 1) * Pow2(8 - r)) % 256)]

\* AsSmaller::shrink: the low n bytes of a.
Shrink(a, n) == SubSeq(a, 1, n)

\* A faulty selection of the low bits: the bits above the lowest one.
AsUsizeShifted(a, mask) == (a[1] \div 2) % (mask + 1)

\* AsUsize::as_usize followed by "& mask", for a mask below 2^8.
AsUsizeMasked(a, mask) == a[1] % (mask + 1)

\* The bit i (0 = lowest) of a.
BitOf(a, i) == (a[(i \div 8) + 1] \div Pow2(i % 8)) % 2

(***************************************************************************)
(* Multiplier strategies (multiplier.rs)                                   *)
(***************************************************************************)

\* A faulty multiplier: DefaultMultiplier with the low bits of the byte
\* constant altered (143 for 141), so that it is not 1 modulo 4.
SkewedMultiplier(n) == IF n = 1 THEN <<143>> ELSE [i \in 1..n |-> 3]

\* DefaultMultiplier::multiplier for the state type of n bytes.
DefaultMultiplier(n) ==
    CASE n = 1 -> <<141>>
      [] n = 2 -> <<29, 50>>                               \* 12829
      [] n = 4 -> <<181, 119, 146, 44>>                    \* 747796405
      [] n = 8 -> <<45, 127, 149, 76, 45, 244, 81, 88>>    \* 6364136223846793005

\* A faulty multiplier of the MCG: an even one.
McgMultiplierEven(n) == [i \in 1..n |-> IF i = 1 THEN 216 ELSE 242]

\* McgMultiplier::multiplier for the state type of n bytes.
McgMultiplier(n) ==
    CASE n = 1 -> <<217>>
      [] n = 2 -> <<217, 242>>                             \* 62169
      [] n = 4 -> <<217, 242, 142, 16>>                    \* 277803737
      [] n = 8 -> <<217, 242, 142, 16, 2, 117, 241, 174>>  \* 12605985483714917081

\* Multiplier<Itype>::multiplier of the strategy mul.
Multiplier(mul, n) ==
    IF mul = "Mcg" THEN McgMultiplier(n) ELSE DefaultMultiplier(n)

(***************************************************************************)
(* Stream strategies (stream.rs).  A stream is a record                    *)
(*   [kind, inc, addr]: kind the strategy, inc the field of                *)
(*   SpecificSeqStream, addr the address the stream object is stored at    *)
(*   (self as *const Self), which only UniqueSeqStream reads.              *)
(***************************************************************************)

StreamKinds == {"OneSeq", "NoSeq", "SpecificSeq", "UniqueSeq"}

\* The constant of make_one_seq! / make_set_seq! for the type of n bytes.
OneSeqIncrement(n) ==
    CASE n = 4 -> <<5, 75, 86, 172>>                       \* 2891336453
      [] n = 8 -> <<79, 129, 103, 247, 126, 123, 5, 20>>   \* 1442695040888963407

\* Stream::build
StreamBuild(kind, n, addr) ==
    [kind |-> kind,
     addr |-> addr,
     inc  |-> IF kind = "SpecificSeq" THEN OneSeqIncrement(n) ELSE Zero(n)]

\* Whether Stream::increment returns: UniqueSeqStream unwraps
\* Itype::from_usize(address | 1), which is None when the value does not fit.
IncrementReturns(st) ==
    st.kind = "UniqueSeq" =>
        FitsIn(Len(st.inc), st.addr + (IF st.addr % 2 = 0 THEN 1 ELSE 0))

\* Faulty variants of increment: one read from the address whatever the
\* strategy, one that never reads the address.
IncrementIgnoringAddress(st) ==
    IF st.kind = "NoSeq" THEN Zero(Len(st.inc))
    ELSE IF st.kind = "SpecificSeq" THEN st.inc
    ELSE OneSeqIncrement(Len(st.inc))
IncrementOfAddress(st) ==
    FromUsize(Len(st.inc), st.addr + (IF st.addr % 2 = 0 THEN 1 ELSE 0))

\* Stream::increment (and get_stream, which returns the same value).
Increment(st) ==
    CASE st.kind = "OneSeq"      -> OneSeqIncrement(Len(st.inc))
      [] st.kind = "NoSeq"       -> Zero(Len(st.inc))
      [] st.kind = "SpecificSeq" -> st.inc
      [] st.kind = "UniqueSeq"   ->
            FromUsize(Len(st.inc), st.addr + (IF st.addr % 2 = 0 THEN 1 ELSE 0))

\* Faulty variants of set_stream: one every strategy accepts, one that
\* stores nothing, and one that stores the value as given.
SetStreamAlwaysReturns(st) == TRUE
SetStreamIgnored(st, v) == st
SetStreamRaw(st, v) == [st EXCEPT !.inc = v]

\* Whether Stream::set_stream returns: the trait's default body panics
\* ("Stream setting unimplemented for this stream type"); only
\* SpecificSeqStream overrides it.
SetStreamReturns(st) == st.kind = "SpecificSeq"

\* SpecificSeqStream::set_stream: self.inc = stream_seq | 1.
SetStream(st, v) == [st EXCEPT !.inc = OrOne(v)]

\* Rand for SpecificSeqStream: inc = rng.gen() | 1; the other strategies
\* are built as by build().
StreamRand(kind, v, addr) ==
    IF kind = "SpecificSeq"
    THEN [kind |-> kind, addr |-> addr, inc |-> OrOne(v)]
    ELSE [kind |-> kind, addr |-> addr, inc |-> Zero(Len(v))]

(***************************************************************************)
(* Output permutations (outputmix.rs)                                      *)
(***************************************************************************)

\* A faulty XshRs: the random shift is left out.
XshRsOutputFixedShift(s, xn) ==
    LET sparebits == Bits(s) - 8 * xn
        opbits    == IF sparebits - 5 >= 64 THEN 5
                     ELSE IF sparebits - 4 >= 32 THEN 4
                     ELSE IF sparebits - 3 >= 16 THEN 3
                     ELSE IF sparebits - 2 >= 4 THEN 2
                     ELSE IF sparebits > 1 THEN 1
                     ELSE 0
        mask      == Pow2(opbits) - 1
        state     == BitXor(s, Shr(s, opbits + ((8 * xn + mask) \div 2)))
    IN  Shrink(Shr(state, sparebits - opbits - mask), xn)

\* XshRsMixin::output for a state of Len(s) bytes and an output of xn bytes.
\* The opbits chain subtracts before comparing (sparebits - 5 >= 64, ...),
\* in usize: it is evaluated here for sparebits >= 5 only, where no
\* subtraction underflows.
XshRsOutput(s, xn) ==
    LET ibits     == Bits(s)
        xbits     == 8 * xn
        sparebits == ibits - xbits
        opbits    == IF sparebits - 5 >= 64 THEN 5
                     ELSE IF sparebits - 4 >= 32 THEN 4
                     ELSE IF sparebits - 3 >= 16 THEN 3
                     ELSE IF sparebits - 2 >= 4 THEN 2
                     ELSE IF sparebits > 1 THEN 1
                     ELSE 0
        mask         == Pow2(opbits) - 1
        maxrandshift == mask
        topspare     == opbits
        bottomspare  == sparebits - topspare
        xshift       == topspare + ((xbits + maxrandshift) \div 2)
        rshift       == IF opbits # 0
                        THEN AsUsizeMasked(Shr(s, ibits - opbits), mask)
                        ELSE 0
        state        == BitXor(s, Shr(s, xshift))
    IN  Shrink(Shr(state, bottomspare - maxrandshift + rshift), xn)

\* A faulty XshRr: the xorshift is by one bit less.
XshRrOutputShortShift(s, xn) ==
    LET xtypebits    == 8 * xn
        sparebits    == Bits(s) - xtypebits
        wantedopbits == IF xtypebits >= 64 THEN 6 ELSE IF xtypebits >= 32 THEN 5
                        ELSE IF xtypebits >= 16 THEN 4 ELSE 3
        opbits       == IF sparebits >= wantedopbits THEN wantedopbits ELSE sparebits
        rot          == AsUsizeMasked(Shr(s, Bits(s) - opbits), Pow2(opbits) - 1)
        state        == BitXor(s, Shr(s, ((opbits + xtypebits) \div 2) - 1))
    IN  RotateRight(Shrink(Shr(state, sparebits - opbits), xn), rot)

\* XshRrMixin::output for a state of Len(s) bytes and an output of xn bytes.
XshRrOutput(s, xn) ==
    LET ibits        == Bits(s)
        xtypebits    == 8 * xn
        sparebits    == ibits - xtypebits
        wantedopbits == IF xtypebits >= 128 THEN 7
                        ELSE IF xtypebits >= 64 THEN 6
                        ELSE IF xtypebits >= 32 THEN 5
                        ELSE IF xtypebits >= 16 THEN 4
                        ELSE 3
        opbits       == IF sparebits >= wantedopbits THEN wantedopbits
                        ELSE sparebits
        amplifier    == wantedopbits - opbits
        mask         == Pow2(opbits) - 1
        topspare     == opbits
        bottomspare  == sparebits - topspare
        xshift       == (topspare + xtypebits) \div 2
        rot          == IF opbits # 0
                        THEN AsUsizeMasked(Shr(s, ibits - opbits), mask)
                        ELSE 0
        amprot       == (rot * Pow2(amplifier)) % (mask + 1)
        state        == BitXor(s, Shr(s, xshift))
        result       == Shrink(Shr(state, bottomspare), xn)
    IN  RotateRight(result, amprot)

\* A faulty DXsM: the low half is taken as it is.
DXsMOutputRawLow(s, xn, m) ==
    LET xbits == 8 * xn
        hi0   == Shrink(Shr(s, Bits(s) - xbits), xn)
        hi1   == BitXor(hi0, Shr(hi0, xbits \div 2))
        hi2   == WrappingMul(hi1, Shrink(m, xn))
        hi3   == BitXor(hi2, Shr(hi2, (3 * xbits) \div 4))
    IN  WrappingMul(hi3, Shrink(s, xn))

\* DXsMMixin::output for a state of Len(s) bytes, an output of xn bytes and
\* the multiplier m.
DXsMOutput(s, xn, m) ==
    LET xbits == 8 * xn
        hi0   == Shrink(Shr(s, Bits(s) - xbits), xn)
        low   == OrOne(Shrink(s, xn))
        hi1   == BitXor(hi0, Shr(hi0, xbits \div 2))
        hi2   == WrappingMul(hi1, Shrink(m, xn))
        hi3   == BitXor(hi2, Shr(hi2, (3 * xbits) \div 4))
    IN  WrappingMul(hi3, low)

\* OutputMixin::output of the permutation mix.
Output(mix, s, xn) ==
    IF mix = "XshRs" THEN XshRsOutput(s, xn) ELSE XshRrOutput(s, xn)

\* OutputMixin::output(state, increment, multiplier) of the permutation mix.
MixOutput(mix, s, inc, m, xn) ==
    IF mix = "DXsM" THEN DXsMOutput(s, xn, m) ELSE Output(mix, s, xn)

(***************************************************************************)
(* The engine (lib.rs).  A generator is a record                           *)
(*   [state, stream_mix, mul_mix, out_mix, xtype]                          *)
(* with xtype the number of bytes of the output type.                      *)
(***************************************************************************)

\* Faulty variants of the step, which the properties below must tell from
\* the step of the code: one drops the increment, one takes the increment
\* for the multiplier.
LcgStepNoInc(oldstate, inc, mul) == WrappingMul(oldstate, mul)
LcgStepSwapped(oldstate, inc, mul) == WrappingAdd(mul, WrappingMul(oldstate, inc))

\* self.state = inc.wrapping_add(oldstate.wrapping_mul(mul))
LcgStep(oldstate, inc, mul) == WrappingAdd(inc, WrappingMul(oldstate, mul))

\* A faulty variant of the output: the permutation of the state after the
\* step instead of the state before it.
EngineOutputOfNew(g) ==
    Output(g.out_mix,
           LcgStep(g.state, Increment(g.stream_mix),
                   Multiplier(g.mul_mix, Len(g.state))),
           g.xtype)

\* The value returned by next_u32 / next_u64 of make_rng_impl!.
EngineOutput(g) == Output(g.out_mix, g.state, g.xtype)

\* The generator after next_u32 / next_u64 of make_rng_impl!.
EngineStep(g) ==
    [g EXCEPT !.state = LcgStep(g.state, Increment(g.stream_mix),
                                Multiplier(g.mul_mix, Len(g.state)))]

\* A generator type: PcgEngine<Itype, Xtype, StreamMix, MulMix, OutMix>,
\* with itype and xtype the sizes in bytes of Itype and Xtype.
EngineType(itype, xtype, stream, mul, mix) ==
    [mul |-> mul, mix |-> mix, xtype |-> xtype, itype |-> itype, stream |-> stream]

\* The generators make_generator! defines over a u64 state and a u32 output.
LibTypes ==
    { EngineType(8, 4, "OneSeq", "Default", "XshRs"),        \* OneseqXshRs6432
      EngineType(8, 4, "OneSeq", "Default", "XshRr"),        \* OneseqXshRr6432
      EngineType(8, 4, "UniqueSeq", "Default", "XshRs"),     \* UniqueXshRs6432
      EngineType(8, 4, "UniqueSeq", "Default", "XshRr"),     \* UniqueXshRr6432
      EngineType(8, 4, "SpecificSeq", "Default", "XshRs"),   \* SetseqXshRs6432
      EngineType(8, 4, "SpecificSeq", "Default", "XshRr"),   \* SetseqXshRr6432
      EngineType(8, 4, "NoSeq", "Mcg", "XshRs"),             \* McgXshRs6432
      EngineType(8, 4, "NoSeq", "Mcg", "XshRr") }            \* McgXshRr6432

\* Pcg32 = SetseqXshRr6432
Pcg32Type == EngineType(8, 4, "SpecificSeq", "Default", "XshRr")

\* new_unseeded of make_generator!: state zero, the stream as built.
NewUnseeded(ty, addr) ==
    [state      |-> Zero(ty.itype),
     out_mix    |-> ty.mix,
     stream_mix |-> StreamBuild(ty.stream, ty.itype, addr),
     mul_mix    |-> ty.mul,
     xtype      |-> ty.xtype]

\* Rand for a generator of make_generator!: the state and the stream are
\* generated from another generator, which returned s and v.
EngineRand(ty, s, v, addr) ==
    [state      |-> s,
     out_mix    |-> ty.mix,
     stream_mix |-> StreamRand(ty.stream, v, addr),
     mul_mix    |-> ty.mul,
     xtype      |-> ty.xtype]

\* from_seed: the state is the first value of the seed; a settable stream
\* is set to the second value (stored with its low bit forced to 1), the
\* other strategies are built without it.
FromSeed(ty, s, c, addr) ==
    [state      |-> s,
     out_mix    |-> ty.mix,
     stream_mix |-> LET built == [kind |-> ty.stream, addr |-> addr,
                                  inc |-> Zero(ty.itype)]
                    IN  IF SetStreamReturns(built) THEN SetStream(built, c)
                        ELSE built,
     mul_mix    |-> ty.mul,
     xtype      |-> ty.xtype]

\* One round of the doubling loop of advance on the accumulators
\* acc = <<acc_mult, acc_plus, cur_mult, cur_plus>>: when the bit of delta is
\* set, acc := (cur_mult * acc_mult, cur_mult * acc_plus + cur_plus); then
\* cur := (cur_mult * cur_mult, cur_mult * cur_plus + cur_plus).
AdvanceFold(acc, set) ==
    LET acc_mult == acc[1]
        acc_plus == acc[2]
        cur_mult == acc[3]
        cur_plus == acc[4]
    IN  << IF set THEN WrappingMul(cur_mult, acc_mult) ELSE acc_mult,
           IF set THEN WrappingAdd(WrappingMul(cur_mult, acc_plus), cur_plus)
                  ELSE acc_plus,
           WrappingMul(cur_mult, cur_mult),
           WrappingAdd(WrappingMul(cur_mult, cur_plus), cur_plus) >>

\* The accumulators after the loop has consumed the bits i, i+1, ... of
\* delta, from the least significant to the most significant.  (The test
\* nxt = nxt only makes a round be computed before the next is begun.)
RECURSIVE AdvanceLoop(_, _, _)
AdvanceLoop(delta, i, acc) ==
    IF i >= Bits(delta) THEN acc
    ELSE LET nxt == AdvanceFold(acc, BitOf(delta, i) = 1)
         IN  IF nxt = nxt THEN AdvanceLoop(delta, i + 1, nxt) ELSE nxt

\* advance(delta): the accumulators start at (1, 0) and (multiplier,
\* increment); at the end state := acc_mult * state + acc_plus.
Advance(g, delta) ==
    LET n   == Len(g.state)
        acc == AdvanceLoop(delta, 0,
                           <<One(n), Zero(n), Multiplier(g.mul_mix, n),
                             Increment(g.stream_mix)>>)
    IN  [g EXCEPT !.state = WrappingAdd(WrappingMul(acc[1], g.state), acc[2])]

(***************************************************************************)
(* Pcg32Basic (lib.rs): a u64 state and a u64 inc.  It is held in the same *)
(* record shape as an engine, with stream kind, multiplier and mix "Basic".*)
(***************************************************************************)

\* A faulty variant of Pcg32Basic::from_seed: the state of the seed is
\* dropped.
BasicFromSeedNoState(s, c) ==
    [state      |-> [i \in 1..Len(s) |-> 0],
     out_mix    |-> "Basic",
     stream_mix |-> [kind |-> "Basic", addr |-> 0, inc |-> c],
     mul_mix    |-> "Basic",
     xtype      |-> 4]

\* Pcg32Basic::from_seed / reseed: state = seed[0], inc = seed[1].
BasicFromSeed(s, c) ==
    [state      |-> s,
     out_mix    |-> "Basic",
     stream_mix |-> [kind |-> "Basic", addr |-> 0, inc |-> c],
     mul_mix    |-> "Basic",
     xtype      |-> 4]

\* Pcg32Basic::new_unseeded: state 0, inc 1.
BasicNewUnseeded == BasicFromSeed(Zero(8), One(8))

\* The multiplier literal of Pcg32Basic::next_u32, 6364136223846793005u64.
BasicMultiplier == <<45, 127, 149, 76, 45, 244, 81, 88>>

\* A faulty variant of the step of Pcg32Basic: inc is added as stored.
BasicStepRawInc(g) ==
    [g EXCEPT !.state = WrappingAdd(WrappingMul(g.state, BasicMultiplier),
                                    g.stream_mix.inc)]

\* state = oldstate * 6364136223846793005 + (inc | 1)
BasicStep(g) ==
    [g EXCEPT !.state = WrappingAdd(WrappingMul(g.state, BasicMultiplier),
                                    OrOne(g.stream_mix.inc))]

\* A faulty output of Pcg32Basic: the xorshift is by 17.
BasicOutputShortShift(oldstate) ==
    LET xorshifted == Shrink(Shr(BitXor(Shr(oldstate, 17), oldstate), 27), 4)
        rot        == Shr(oldstate, 59)[1]
    IN  BitOr(Shr(xorshifted, rot), Shl(xorshifted, (32 - rot) % 32))

\* The permuted output of Pcg32Basic::next_u32:
\*   xorshifted = (((oldstate >> 18) ^ oldstate) >> 27) as u32
\*   rot        = (oldstate >> 59) as u32
\*   (xorshifted >> rot) | (xorshifted << ((-rot) & 31))
BasicOutput(oldstate) ==
    LET xorshifted == Shrink(Shr(BitXor(Shr(oldstate, 18), oldstate), 27), 4)
        rot        == Shr(oldstate, 59)[1]
    IN  BitOr(Shr(xorshifted, rot), Shl(xorshifted, (32 - rot) % 32))

(***************************************************************************)
(* One draw of a generator of either sort                                  *)
(***************************************************************************)

IsBasic(g) == g.out_mix = "Basic"

\* Whether next_u32 returns (it panics when the stream's increment does).
NextReturns(g) == IsBasic(g) \/ IncrementReturns(g.stream_mix)

\* The value next_u32 returns.
NextOutput(g) == IF IsBasic(g) THEN BasicOutput(g.state) ELSE EngineOutput(g)

\* The generator after next_u32.
NextGen(g) == IF IsBasic(g) THEN BasicStep(g) ELSE EngineStep(g)

\* The generator after k calls of next_u32 in sequence, the outputs
\* discarded: k calls are k \div 2 calls followed by the remaining ones.
\* (The test h = h only makes the first half be computed before the second
\* is begun, which keeps the evaluation shallow.)
RECURSIVE StepTimes(_, _)
StepTimes(g, k) ==
    IF k = 0 THEN g
    ELSE IF k = 1 THEN NextGen(g)
    ELSE LET h == StepTimes(g, k \div 2)
         IN  IF h = h THEN StepTimes(h, k - (k \div 2)) ELSE h

(***************************************************************************)
(* The state: two generators and what a caller has observed of them        *)
(***************************************************************************)

VARIABLES
    ra,        \* the generator under test
    rb,        \* the second generator: a reference copy, a generator from a
               \* related seed, or ra as it was before the last operation
    lasta,     \* the value the last draw of ra returned (<<>> before any)
    lastb,     \* the value the last draw of rb returned (<<>> before any)
    draws,     \* the number of draws made from each generator
    agree,     \* whether every draw so far returned the same value from both
    rel,       \* how the two generators were constructed
    start,     \* the state of ra after construction
    pos,       \* the steps ra has been moved since construction, mod 2^W
    refok,     \* whether rb has been stepped through every move of ra
    op,        \* the last operation called, [name, arg]
    outcome,   \* "ok" when the last operation returned, "panic" otherwise
    nops,      \* the number of operations other than draws called so far
    visited,   \* the states ra has left since construction
    period,    \* the number of draws after which ra first came back to start
    build,     \* the build profile: "debug" checks integer overflow,
               \* "release" does not
    features,  \* the cargo features the crate was built with
    picks,     \* the slots of the extension array the last draws selected
    seeder,    \* a PcgSeeder: the bytes of the seed and the read position
    seed,      \* the (state, stream) pair the seeder was made from
    record,    \* a serialized generator: state, stream (increment) and the
               \* tag of the algorithm
    counts     \* how many times each output value has been returned

vars == <<ra, rb, lasta, lastb, draws, agree, rel, start, pos, refok, op,
          outcome, nops, visited, period, build, features, picks, seeder, seed,
          record, counts>>

\* The storage addresses of the two generators.
AddrA == 4096 + 512
AddrB == 4096 + 768

NoArg == <<>>

\* No seeder is in use.
NoSeeder == [data |-> <<>>, at_pos |-> 0]

\* The variables the operations of a generator leave alone.
others == <<build, features, picks, seeder, seed, record, counts>>

\* The state after the pair (a, b) has been constructed.
Constructed(a, b, r) ==
    /\ ra = a
    /\ rb = b
    /\ lasta = <<>>
    /\ lastb = <<>>
    /\ draws = 0
    /\ agree = TRUE
    /\ rel = r
    /\ start = a.state
    /\ pos = Zero(Len(a.state))
    /\ refok = TRUE
    /\ op = [name |-> "new", arg |-> NoArg]
    /\ outcome = "ok"
    /\ nops = 0
    /\ visited = {}
    /\ period = 0
    /\ build = "release"
    /\ features = {}
    /\ picks = <<>>
    /\ seeder = NoSeeder
    /\ seed = NoArg
    /\ record = NoArg
    /\ counts = <<>>

\* One draw from each generator (next_u32 of ra, next_u32 of rb).
DrawBoth ==
    /\ NextReturns(ra) /\ NextReturns(rb)
    /\ lasta' = NextOutput(ra)
    /\ lastb' = NextOutput(rb)
    /\ ra' = NextGen(ra)
    /\ rb' = NextGen(rb)
    /\ draws' = draws + 1
    /\ agree' = (agree /\ NextOutput(ra) = NextOutput(rb))
    /\ pos' = WrappingAdd(pos, One(Len(pos)))
    /\ op' = [name |-> "next", arg |-> NoArg]
    /\ outcome' = "ok"
    /\ UNCHANGED others
    /\ UNCHANGED <<rel, start, refok, nops, visited, period>>

(***************************************************************************)
(* Jump-ahead: ra is advanced, the reference copy rb is stepped            *)
(***************************************************************************)

MaxDraws == 2
MaxAdvances == 1

\* The delta of the short advance of the tests; the reference copy is
\* stepped one call at a time through the deltas up to it.
ShortAdvance == 300

AllOnes(n) == [i \in 1..n |-> 255]

\* A delta that fits a machine word of the model, and its value.
IsSmall(d) == \A i \in 3..Len(d) : d[i] = 0
SmallValue(d) == ToNat(d)

\* Engines over a u16 state and a u8 output, the narrowest pair of types
\* the operations are implemented for.
NarrowTypes ==
    { EngineType(2, 1, "SpecificSeq", "Default", "XshRr"),
      EngineType(2, 1, "SpecificSeq", "Default", "XshRs"),
      EngineType(2, 1, "NoSeq", "Mcg", "XshRr") }

AdvanceTypes ==
    NarrowTypes \cup
    { EngineType(8, 4, "OneSeq", "Default", "XshRr"),
      EngineType(8, 4, "UniqueSeq", "Default", "XshRr"),
      EngineType(8, 4, "SpecificSeq", "Default", "XshRr"),
      EngineType(8, 4, "NoSeq", "Mcg", "XshRs") }

\* The seeds (state, stream) the generators are constructed from.
SeedStates(n) == {FromUsize(n, 11), AllOnes(n)}

SeedStreams(n) == {FromUsize(n, 12), AllOnes(n)}

\* The deltas advance is called with: the deltas of the tests (300 and the
\* largest value of the type) and some others, small and large.
Deltas(n) ==
    {Zero(n), One(n), FromUsize(n, 2), FromUsize(n, ShortAdvance), [i \in 1..n |-> IF i = n THEN 128 ELSE 0],
     [i \in 1..n |-> IF i = 1 THEN 7 ELSE IF i = n THEN 1 ELSE 0],
     [i \in 1..n |-> IF i = 1 THEN 254 ELSE 255], AllOnes(n)}

InitAdvance ==
    \E ty \in AdvanceTypes :
        \/ /\ ty \in LibTypes
           /\ Constructed(NewUnseeded(ty, AddrA), NewUnseeded(ty, AddrA), "same")
        \/ \E s \in SeedStates(ty.itype), c \in SeedStreams(ty.itype) :
              Constructed(FromSeed(ty, s, c, AddrA), FromSeed(ty, s, c, AddrA),
                          "same")

AdvDraw ==
    /\ draws < MaxDraws
    /\ DrawBoth

\* ra.advance(d), while the reference copy is stepped d times when d is
\* small enough to be stepped through.
AdvAdvance ==
    /\ nops < MaxAdvances
    /\ \E d \in Deltas(Len(ra.state)) :
          /\ ra' = Advance(ra, d)
          /\ IF IsSmall(d) /\ SmallValue(d) <= ShortAdvance
             THEN rb' = StepTimes(rb, SmallValue(d)) /\ refok' = refok
             ELSE rb' = rb /\ refok' = FALSE
          /\ pos' = WrappingAdd(pos, d)
          /\ op' = [name |-> "advance", arg |-> d]
    /\ outcome' = "ok"
    /\ nops' = nops + 1
    /\ UNCHANGED others
    /\ UNCHANGED <<lasta, lastb, draws, agree, rel, start, visited, period>>

NextAdvance == AdvDraw \/ AdvAdvance

SpecAdvance == InitAdvance /\ [][NextAdvance]_vars

\* C1 (jump-ahead equivalence): as long as the reference copy has been
\* stepped once for every step ra was advanced by, advance(d) has left ra in
\* the state d calls of next leave the copy in, and a draw made after it
\* returns the value the copy's draw returns.
AdvanceEquivalence ==
    refok => (ra.state = rb.state /\ lasta = lastb)

\* advance(300) on a u64 generator, then one draw from it and from the copy
\* that was stepped 300 times.
AdvanceEquivalenceWitness ==
    /\ refok
    /\ nops = 1
    /\ draws = 1
    /\ op.name = "next"
    /\ pos = FromUsize(8, ShortAdvance + 1)
    /\ ra.state = rb.state
    /\ lasta = lastb

\* C2 (wraparound): when advance(2^W - 1) has brought the number of steps
\* made since construction to a multiple of 2^W, the state is the state at
\* construction; and a draw made from such a position returns what the
\* first draw after construction returns.
Wraparound ==
    /\ (op.name = "advance" /\ op.arg = AllOnes(Len(pos)) /\ pos = Zero(Len(pos)))
          => ra.state = start
    /\ (op.name = "next" /\ nops >= 1 /\ pos = One(Len(pos)))
          => lasta = NextOutput([ra EXCEPT !.state = start])

\* One draw from a u64 generator, then advance(u64::MAX).
WraparoundWitness ==
    /\ op.name = "advance"
    /\ op.arg = AllOnes(8)
    /\ draws = 1
    /\ pos = Zero(8)
    /\ ra.state = start

(***************************************************************************)
(* Two generators drawn from in lockstep                                   *)
(***************************************************************************)

\* The number of draws the tests compare (take(100)).
NumDraws == 100

\* The state of the default seed of PcgSeeder, by the size of the type.
DefaultSeedState(n) ==
    CASE n = 1 -> <<225>>                                  \* 0xE1
      [] n = 2 -> <<25, 170>>                              \* 0xAA19
      [] n = 4 -> <<160, 32, 138, 48>>                     \* 0x308A20A0
      [] n = 8 -> <<114, 63, 72, 58, 173, 60, 1, 24>>      \* 0x18013CAD3A483F72

\* The stream of the default seed of PcgSeeder, by the size of the type.
DefaultSeedStream(n) ==
    CASE n = 1 -> <<179>>                                  \* 0xB3
      [] n = 2 -> <<216, 79>>                              \* 0x4FD8
      [] n = 4 -> <<241, 81, 51, 209>>                     \* 0xD13351F1
      [] n = 8 -> <<212, 33, 107, 13, 218, 252, 219, 81>>  \* 0x51DBFCDA0D6B21D4

PairTypes == LibTypes \cup NarrowTypes

PairStates(n) == SeedStates(n) \cup {Zero(n), DefaultSeedState(n)}

\* The streams; c + 2 is representable for each of them.
PairStreams(n) ==
    {Zero(n), FromUsize(n, 12), FromUsize(n, 13), DefaultSeedStream(n),
     [i \in 1..n |-> IF i = 1 THEN 253 ELSE 255]}

Two(n) == FromUsize(n, 2)

\* Two generators of one type from one seed, at two addresses.
InitSame ==
    \/ \E ty \in PairTypes :
          \E s \in PairStates(ty.itype), c \in PairStreams(ty.itype) :
             Constructed(FromSeed(ty, s, c, AddrA), FromSeed(ty, s, c, AddrB),
                         "same")
    \/ \E s \in PairStates(8), c \in PairStreams(8) :
          Constructed(BasicFromSeed(s, c), BasicFromSeed(s, c), "same")

\* Two unseeded generators of one type, at two addresses.
InitUnseeded ==
    \/ \E ty \in LibTypes :
          Constructed(NewUnseeded(ty, AddrA), NewUnseeded(ty, AddrB), "unseeded")
    \/ Constructed(BasicNewUnseeded, BasicNewUnseeded, "unseeded")

\* An unseeded generator, and one from the default seed of PcgSeeder; both
\* at one address, which is to say one object constructed either way.
InitDefaultSeed ==
    \E ty \in LibTypes :
       Constructed(NewUnseeded(ty, AddrA),
                   FromSeed(ty, DefaultSeedState(ty.itype),
                            DefaultSeedStream(ty.itype), AddrA),
                   "default-seed")

\* Pcg32Basic from the seeds (s, c) and (s, c | 1).
InitStreamOrOne ==
    \E s \in PairStates(8), c \in PairStreams(8) :
       Constructed(BasicFromSeed(s, c), BasicFromSeed(s, OrOne(c)), "stream|1")

\* Generators with a settable stream from the seeds (s, c) and (s, c + 2).
InitStreamPlusTwo ==
    \/ \E ty \in {x \in PairTypes : x.stream = "SpecificSeq"} :
          \E s \in PairStates(ty.itype), c \in PairStreams(ty.itype) :
             Constructed(FromSeed(ty, s, c, AddrA),
                         FromSeed(ty, s, WrappingAdd(c, Two(ty.itype)), AddrB),
                         "stream+2")
    \/ \E s \in PairStates(8), c \in PairStreams(8) :
          Constructed(BasicFromSeed(s, c),
                      BasicFromSeed(s, WrappingAdd(c, Two(8))), "stream+2")

\* Generators from the seeds (s, c) and (s + 1, c), s + 1 representable.
\* Both are at one address, as two generators used one after the other
\* are, so that a UniqueSeqStream does not tell them apart.
InitStatePlusOne ==
    \/ \E ty \in PairTypes :
          \E s \in PairStates(ty.itype) \ {AllOnes(ty.itype)},
             c \in PairStreams(ty.itype) :
             Constructed(FromSeed(ty, s, c, AddrA),
                         FromSeed(ty, WrappingAdd(s, One(ty.itype)), c, AddrA),
                         "state+1")
    \/ \E s \in PairStates(8) \ {AllOnes(8)}, c \in PairStreams(8) :
          Constructed(BasicFromSeed(s, c),
                      BasicFromSeed(WrappingAdd(s, One(8)), c), "state+1")

\* The addresses two generators over a u64 state can be stored at: the
\* generators do not overlap, so two addresses are 8 bytes apart or more.
UniqueAddrs == {AddrA, AddrA + 8, AddrB, AddrB + 4096 + 24}

\* Two UniqueSeq generators from one seed (or both unseeded), at two
\* addresses.
InitUnique ==
    \E ty \in {x \in LibTypes : x.stream = "UniqueSeq"} :
       \E a \in UniqueAddrs : \E b \in UniqueAddrs \ {a} :
          \/ \E s \in PairStates(ty.itype) :
                Constructed(FromSeed(ty, s, Zero(ty.itype), a),
                            FromSeed(ty, s, Zero(ty.itype), b), "unique")
          \/ Constructed(NewUnseeded(ty, a), NewUnseeded(ty, b), "unique")

\* A Pcg32Basic and a Pcg32 from one state and one odd increment: the
\* unseeded Pcg32 against the Pcg32Basic seeded with its state and
\* increment, and the two seeded alike.
InitBasicAndEngine ==
    \/ Constructed(BasicFromSeed(Zero(8), OneSeqIncrement(8)),
                   NewUnseeded(Pcg32Type, AddrA), "basic-engine")
    \/ \E s \in PairStates(8), c \in {x \in PairStreams(8) : IsOdd(x)} :
          Constructed(BasicFromSeed(s, c), FromSeed(Pcg32Type, s, c, AddrA),
                      "basic-engine")

\* The states an MCG is started from: zero, and states that end in three,
\* eight and W - 1 zero bits.
McgStates(n) ==
    {Zero(n), [i \in 1..n |-> IF i = 1 THEN 8 ELSE 255],
     [i \in 1..n |-> IF i = 1 THEN 0 ELSE 77], [i \in 1..n |-> IF i = n THEN 128 ELSE 0]}

InitMcg ==
    \E ty \in {x \in PairTypes : x.stream = "NoSeq"} :
       \E s \in McgStates(ty.itype) :
          Constructed(FromSeed(ty, s, Zero(ty.itype), AddrA),
                      FromSeed(ty, s, Zero(ty.itype), AddrA), "mcg")

Init ==
    \/ InitBasicAndEngine
    \/ InitMcg
    \/ InitSame
    \/ InitUnseeded
    \/ InitDefaultSeed
    \/ InitStreamOrOne
    \/ InitStreamPlusTwo
    \/ InitStatePlusOne
    \/ InitUnique

PairDraw ==
    /\ draws < NumDraws
    /\ DrawBoth

Next == PairDraw

Spec == Init /\ [][Next]_vars

\* C3 (step and output): a draw from an engine returns the permutation of
\* the state before the call, and leaves the state at
\* (increment + old state * multiplier) mod 2^W, the stream untouched.  For
\* a one-byte state the new state is also compared as a number.
NextContract ==
    [][ (draws' = draws + 1 /\ ~IsBasic(ra)) =>
           LET old == ra.state
               inc == Increment(ra.stream_mix)
               mul == Multiplier(ra.mul_mix, Len(old))
           IN  /\ lasta' = Output(ra.out_mix, old, ra.xtype)
               /\ ra'.state = WrappingAdd(inc, WrappingMul(old, mul))
               /\ Len(old) = 1 =>
                     ToNat(ra'.state)
                        = (ToNat(inc) + ToNat(old) * ToNat(mul)) % Pow2(8)
               /\ ra'.stream_mix = ra.stream_mix ]_vars

\* A Pcg32 has been drawn from, and its state is no longer the state whose
\* permutation the draw returned.
NextContractWitness ==
    /\ ~IsBasic(ra)
    /\ ra.stream_mix.kind = "SpecificSeq"
    /\ Len(ra.state) = 8
    /\ draws = 2
    /\ lasta # Output(ra.out_mix, ra.state, ra.xtype)

\* C4 (determinism): two generators of one type constructed from one seed
\* (or both unseeded) return the same values and stay in the same state,
\* whatever their addresses, unless their stream is a UniqueSeqStream.
SeedDeterminism ==
    (rel \in {"same", "unseeded"} /\ ra.stream_mix.kind # "UniqueSeq") =>
        (agree /\ lasta = lastb /\ ra.state = rb.state)

\* Two Pcg32 from one seed, at two addresses, after all the draws.
SeedDeterminismWitness ==
    /\ rel = "same"
    /\ ra.stream_mix.kind = "SpecificSeq"
    /\ ra.stream_mix.addr # rb.stream_mix.addr
    /\ Len(ra.state) = 8
    /\ draws = NumDraws
    /\ agree

\* C5 (unseeded default): new_unseeded constructs the generator that
\* from_seed constructs from the default seed of PcgSeeder: the same state
\* and the same increment.
UnseededIsDefaultSeed ==
    rel = "default-seed" =>
        /\ ra.state = rb.state
        /\ Increment(ra.stream_mix) = Increment(rb.stream_mix)

\* C9 (stream aliasing of Pcg32Basic): seeded with (s, c) and (s, c | 1),
\* two Pcg32Basic return the same values and stay in the same state.
BasicStreamAliasing ==
    rel = "stream|1" => (agree /\ lasta = lastb /\ ra.state = rb.state)

\* Two Pcg32Basic whose stored incs differ (c is even), after all the draws.
BasicStreamAliasingWitness ==
    /\ rel = "stream|1"
    /\ IsBasic(ra)
    /\ ra.stream_mix.inc # rb.stream_mix.inc
    /\ draws = NumDraws
    /\ agree

\* C10 (stream sensitivity): seeded with one state and the streams c and
\* c + 2, two generators have returned different values at some draw by the
\* time NumDraws draws were made.
StreamSensitivity ==
    (rel = "stream+2" /\ draws = NumDraws) => ~agree

\* Two Pcg32 with the streams c and c + 2 whose outputs have differed.
StreamSensitivityWitness ==
    /\ rel = "stream+2"
    /\ ~IsBasic(ra)
    /\ Len(ra.state) = 8
    /\ draws = NumDraws
    /\ ~agree

\* C26 (Pcg32Basic and Pcg32): from one state and one odd increment, a
\* Pcg32Basic and a Pcg32 have returned the same values after any number
\* of draws and are in the same state.
BasicIsPcg32 ==
    rel = "basic-engine" =>
        /\ agree
        /\ lasta = lastb
        /\ ra.state = rb.state

\* A hundred draws from the two, from the state and the increment of the
\* unseeded Pcg32.
BasicIsPcg32Witness ==
    /\ rel = "basic-engine"
    /\ IsBasic(ra) /\ ~IsBasic(rb)
    /\ start = Zero(8)
    /\ Increment(rb.stream_mix) = OneSeqIncrement(8)
    /\ draws = NumDraws
    /\ agree
    /\ ra.state = rb.state
    /\ ra.state # start

\* The number of zero bits a value ends in (its width when it is zero).
RECURSIVE TrailingZeros(_, _)
TrailingZeros(a, i) ==
    IF i = Bits(a) THEN i
    ELSE IF BitOf(a, i) = 1 THEN i
    ELSE TrailingZeros(a, i + 1)

\* C27 (MCG): a draw from a generator of the NoSeq stream, whose increment
\* is zero, leaves the number of trailing zero bits of the state as it was;
\* from the state zero the state stays zero and every draw returns the
\* same value.
McgTrailingZeros ==
    [][ (draws' = draws + 1 /\ ~IsBasic(ra) /\ ra.stream_mix.kind = "NoSeq") =>
           /\ Increment(ra.stream_mix) = Zero(Len(ra.state))
           /\ TrailingZeros(ra'.state, 0) = TrailingZeros(ra.state, 0)
           /\ ra.state = Zero(Len(ra.state)) =>
                 /\ ra'.state = ra.state
                 /\ draws >= 1 => lasta' = lasta ]_vars

\* An MCG whose state ends in three zero bits, a hundred draws on.
McgTrailingZerosWitness ==
    /\ rel = "mcg"
    /\ Len(ra.state) = 8
    /\ ra.stream_mix.kind = "NoSeq"
    /\ draws = NumDraws
    /\ TrailingZeros(ra.state, 0) = 3
    /\ TrailingZeros(start, 0) = 3
    /\ ra.state # start

\* C11 (seed sensitivity): seeded with the states s and s + 1 and one
\* stream, two generators have returned different values at some draw by
\* the time NumDraws draws were made.
SeedSensitivity ==
    (rel = "state+1" /\ draws = NumDraws) => ~agree

\* Two Pcg32 from the states s and s + 1 whose outputs have differed.
SeedSensitivityWitness ==
    /\ rel = "state+1"
    /\ ~IsBasic(ra)
    /\ ra.stream_mix.kind = "SpecificSeq"
    /\ Len(ra.state) = 8
    /\ ra.stream_mix = rb.stream_mix
    /\ draws = NumDraws
    /\ ~agree

MaxOps == 2

StreamValues(n) ==
    {Zero(n), FromUsize(n, 12), FromUsize(n, 13),
     [i \in 1..n |-> IF i = 1 THEN 254 ELSE 255], AllOnes(n)}

InitStream ==
    \E ty \in LibTypes :
       Constructed(NewUnseeded(ty, AddrA), NewUnseeded(ty, AddrA), "stream-ops")

\* The generator is replaced by a new one observed from its construction.
Replaced(g, name, arg) ==
    /\ ra' = g
    /\ rb' = ra
    /\ start' = g.state
    /\ pos' = Zero(Len(g.state))
    /\ op' = [name |-> name, arg |-> arg]
    /\ outcome' = "ok"
    /\ nops' = nops + 1
    /\ UNCHANGED others
    /\ UNCHANGED <<lasta, lastb, draws, agree, rel, refok, visited, period>>

StrBuild ==
    /\ nops < MaxOps
    /\ \E ty \in LibTypes : Replaced(NewUnseeded(ty, AddrA), "new_unseeded", NoArg)

StrRand ==
    /\ nops < MaxOps
    /\ \E ty \in LibTypes, v \in StreamValues(8) :
          Replaced(EngineRand(ty, FromUsize(8, 11), v, AddrA), "rand", v)

\* stream_mix.set_stream(v): the stream is changed when the call returns.
StrSetStream ==
    /\ nops < MaxOps
    /\ \E v \in StreamValues(Len(ra.state)) :
          /\ IF SetStreamReturns(ra.stream_mix)
             THEN /\ ra' = [ra EXCEPT !.stream_mix = SetStream(ra.stream_mix, v)]
                  /\ outcome' = "ok"
             ELSE /\ ra' = ra
                  /\ outcome' = "panic"
          /\ op' = [name |-> "set_stream", arg |-> v]
    /\ rb' = ra
    /\ nops' = nops + 1
    /\ UNCHANGED others
    /\ UNCHANGED <<lasta, lastb, draws, agree, rel, start, pos, refok, visited,
                   period>>

StrDraw ==
    /\ draws < MaxDraws
    /\ NextReturns(ra)
    /\ lasta' = NextOutput(ra)
    /\ ra' = NextGen(ra)
    /\ rb' = ra
    /\ draws' = draws + 1
    /\ pos' = WrappingAdd(pos, One(Len(pos)))
    /\ op' = [name |-> "next", arg |-> NoArg]
    /\ outcome' = "ok"
    /\ UNCHANGED others
    /\ UNCHANGED <<lastb, agree, rel, start, refok, nops, visited, period>>

NextStream == StrBuild \/ StrRand \/ StrSetStream \/ StrDraw

SpecStream == InitStream /\ [][NextStream]_vars

\* C7 (stream parity): the increment a stream returns is zero for a
\* NoSeqStream and odd for every other strategy, after any sequence of
\* constructions, set_stream calls and draws; and a set_stream(v) that
\* returned has stored exactly v | 1.
StreamParity ==
    /\ ra.stream_mix.kind = "NoSeq" =>
          Increment(ra.stream_mix) = Zero(Len(ra.state))
    /\ ra.stream_mix.kind # "NoSeq" => IsOdd(Increment(ra.stream_mix))
    /\ (op.name = "set_stream" /\ outcome = "ok") =>
          Increment(ra.stream_mix) = BitOr(op.arg, One(Len(op.arg)))
    /\ (op.name = "rand" /\ ra.stream_mix.kind = "SpecificSeq") =>
          Increment(ra.stream_mix) = BitOr(op.arg, One(Len(op.arg)))

\* set_stream was called with an even value and returned, after a draw.
StreamParityWitness ==
    /\ op.name = "set_stream"
    /\ outcome = "ok"
    /\ ~IsOdd(op.arg)
    /\ op.arg # Zero(Len(op.arg))
    /\ draws >= 1
    /\ IsOdd(Increment(ra.stream_mix))

\* C8 (set_stream on a fixed stream): called on a OneSeqStream, a
\* NoSeqStream or a UniqueSeqStream, set_stream panics whatever the value,
\* and the stream returns the increment it returned before the call.
SetStreamUnsupported ==
    (op.name = "set_stream"
        /\ rb.stream_mix.kind \in {"OneSeq", "NoSeq", "UniqueSeq"}) =>
            /\ outcome = "panic"
            /\ Increment(ra.stream_mix) = Increment(rb.stream_mix)
            /\ ra = rb

\* set_stream has panicked on a UniqueSeqStream.
SetStreamUnsupportedWitness ==
    /\ op.name = "set_stream"
    /\ rb.stream_mix.kind = "UniqueSeq"
    /\ outcome = "panic"
    /\ ra = rb

(***************************************************************************)
(* The period of the recurrence.  An engine with the default multiplier is *)
(* stepped from a state s with an increment c, for a u8 state (every c)    *)
(* and for a u16 state.  The increment is set in the stream as a value,    *)
(* since no operation of a stream stores an even one other than zero; and  *)
(* only the state is stepped, no output is taken.                          *)
(***************************************************************************)

\* 2^W for a state of n bytes (n = 1, 2).
StateCount(n) == IF n = 1 THEN Pow2(8) ELSE Pow2(8) * Pow2(8)

PeriodEngine(s, c) ==
    [state      |-> s,
     out_mix    |-> "XshRr",
     stream_mix |-> [kind |-> "SpecificSeq", addr |-> AddrA, inc |-> c],
     mul_mix    |-> "Default",
     xtype      |-> 1]

InitPeriod ==
    \/ \E s \in {<<0>>, <<1>>, <<225>>}, c \in UInt(1) :
          Constructed(PeriodEngine(s, c), PeriodEngine(s, c), "period")
    \/ \E s \in {<<25, 170>>},
          c \in {<<1, 0>>, <<2, 0>>, <<216, 79>>, <<217, 79>>} :
          Constructed(PeriodEngine(s, c), PeriodEngine(s, c), "period")

\* One step of the state; the states left are recorded for a u8 state, and
\* the first return to the state at construction is dated.
PerStep ==
    /\ draws < StateCount(Len(ra.state))
    /\ ra' = EngineStep(ra)
    /\ draws' = draws + 1
    /\ visited' = IF Len(ra.state) = 1 THEN visited \cup {ra.state} ELSE visited
    /\ period' = IF period = 0 /\ EngineStep(ra).state = start
                 THEN draws + 1 ELSE period
    /\ pos' = WrappingAdd(pos, One(Len(pos)))
    /\ op' = [name |-> "next", arg |-> NoArg]
    /\ UNCHANGED others
    /\ UNCHANGED <<rb, lasta, lastb, agree, rel, start, refok, outcome, nops>>

NextPeriod == PerStep

SpecPeriod == InitPeriod /\ [][NextPeriod]_vars

\* C6 (full period): with the default multiplier, when the increment is odd
\* no state is met twice before 2^W draws and the state is back at the
\* start after exactly 2^W draws; when the increment is even, the state has
\* come back to the start after fewer than 2^W draws, and fewer than 2^W
\* states were met.
FullPeriod ==
    LET inc == Increment(ra.stream_mix)
        n   == Len(ra.state)
    IN  /\ IsOdd(inc) =>
              /\ n = 1 => Cardinality(visited) = draws
              /\ period # 0 <=> draws = StateCount(n)
              /\ period # 0 => period = StateCount(n)
        /\ (~IsOdd(inc) /\ draws = StateCount(n)) =>
              /\ period \in 1..(StateCount(n) - 1)
              /\ n = 1 => Cardinality(visited) < StateCount(n)

\* An odd increment on a u8 state: 2^W steps, 2^W states met, back at the
\* start.
FullPeriodWitness ==
    /\ rel = "period"
    /\ Len(ra.state) = 1
    /\ draws = StateCount(1)
    /\ period = StateCount(1)
    /\ Cardinality(visited) = StateCount(1)
    /\ IsOdd(Increment(ra.stream_mix))

(***************************************************************************)
(* Extended generators (extension/mod.rs, extension/extsizes.rs)           *)
(***************************************************************************)

\* The ExtSize types of make_ext_size!, by their number of bits: Ext2 is 1,
\* Ext1024 is 10.
ExtBits == 1..10

\* A faulty table of sizes: Ext1024 of a thousand slots.
ExtSizeOfSkewed(bits) ==
    CASE bits = 1 -> 2 [] bits = 2 -> 4 [] bits = 3 -> 8 [] bits = 4 -> 16
      [] bits = 5 -> 32 [] bits = 6 -> 64 [] bits = 7 -> 128 [] bits = 8 -> 256
      [] bits = 9 -> 512 [] bits = 10 -> 1000

\* ExtSize::ext_size (EXT_SIZE) of the size type of the given number of
\* bits, as make_ext_size! lists them.
ExtSizeOf(bits) ==
    CASE bits = 1 -> 2 [] bits = 2 -> 4 [] bits = 3 -> 8 [] bits = 4 -> 16
      [] bits = 5 -> 32 [] bits = 6 -> 64 [] bits = 7 -> 128 [] bits = 8 -> 256
      [] bits = 9 -> 512 [] bits = 10 -> 1024

\* The largest value of a slot of n bytes.
SlotMax(n) == [i \in 1..n |-> 255]

\* An extended generator whose array holds the slots x.
ExtOf(pcg, x, bits) == [pcg |-> pcg, ext |-> x, size |-> bits]

\* A faulty from_pcg: the array is filled from a copy of the engine, which
\* is wrapped as it was given.
FromPcgOfCopy(pcg, bits) ==
    ExtOf(pcg, [i \in 1..ExtSizeOf(bits) |-> NextOutput(StepTimes(pcg, i - 1))], bits)

\* ExtPcg::from_pcg: the array is filled with ext_size values generated
\* from the engine, which is left after them.
FromPcg(pcg, bits) ==
    ExtOf(StepTimes(pcg, ExtSizeOf(bits)),
          [i \in 1..ExtSizeOf(bits) |-> NextOutput(StepTimes(pcg, i - 1))],
          bits)

\* ExtPcg::new_unseeded
ExtNewUnseeded(ty, bits) == FromPcg(NewUnseeded(ty, AddrA), bits)

\* let mask = 2usize.pow(Size::ext_bits() as u32)-1;
ExtMask(bits) == (2 ^ bits) - 1

\* let pick = self.pcg.state.as_usize() & mask, of the updated state.
ExtPick(e) == AsUsizeMasked(EngineStep(e.pcg).state, ExtMask(e.size))

\* self.ext[pick] (the slots of the model are numbered from 1)
ExtVal(e) == e.ext[ExtPick(e) + 1]

\* self.ext[pick] + 1 overflows: the slot holds the largest value.
ExtOverflows(e) == ExtVal(e) = SlotMax(Len(ExtVal(e)))

\* The builds in which `+` on integers panics on overflow (the default of
\* the debug profile); in the others it wraps.
OverflowPanics(b) == b = "debug"

\* next_u32 / next_u64 of ExtPcg returns.
ExtNextReturns(e, b) == ~(ExtOverflows(e) /\ OverflowPanics(b))

\* A faulty result: the slot is not mixed into the output.
ExtNextOutputPlain(e) == EngineOutput(e.pcg)

\* The value next_u32 / next_u64 of ExtPcg returns:
\* OutMix::output(oldstate) ^ ext_val.
ExtNextOutput(e) == BitXor(EngineOutput(e.pcg), ExtVal(e))

\* The extended generator after next_u32 / next_u64: the state of the
\* engine is updated first; the slot is incremented after it, unless the
\* increment panics.
ExtNextGen(e, b) ==
    [e EXCEPT !.pcg = EngineStep(e.pcg),
              !.ext = IF ExtNextReturns(e, b)
                      THEN [e.ext EXCEPT ![ExtPick(e) + 1] =
                                           WrappingAdd(ExtVal(e), One(Len(ExtVal(e))))]
                      ELSE e.ext]

MaxExtDraws == 18

\* The sizes the extended generators are checked with: Ext2, Ext4, Ext8.
CheckedBits == {b \in ExtBits : b <= 3}

\* The state of a u64 engine whose XshRr output is the largest u32: the
\* bits 41 to 58 are set, the rotation is by zero.
MaxOutState == <<0, 0, 0, 0, 0, 254, 255, 7>>

\* The engines an extended generator is made from: Pcg32 (the engine of
\* Pcg32Ext) unseeded or seeded.
ExtEngines ==
    {NewUnseeded(Pcg32Type, AddrA)} \cup
    {FromSeed(Pcg32Type, s, c, AddrA) :
        s \in {FromUsize(8, 11), AllOnes(8), MaxOutState},
        c \in {FromUsize(8, 12), AllOnes(8)}}

\* The state after ExtPcg::from_pcg(pcg), in the build b; the unwrapped
\* engine rb is the engine as from_pcg left it.
ExtConstructedBy(e, name, pcg, b, r) ==
    /\ ra = e
    /\ rb = e.pcg
    /\ lasta = <<>>
    /\ lastb = <<>>
    /\ draws = 0
    /\ agree = TRUE
    /\ rel = r
    /\ start = e
    /\ pos = Zero(Len(pcg.state))
    /\ refok = TRUE
    /\ op = [name |-> name, arg |-> pcg]
    /\ outcome = "ok"
    /\ nops = 0
    /\ visited = {}
    /\ period = 0
    /\ build = b
    /\ features = {}
    /\ picks = <<>>
    /\ seeder = NoSeeder
    /\ seed = NoArg
    /\ record = NoArg
    /\ counts = <<>>

ExtConstructed(pcg, bits, b, r) ==
    ExtConstructedBy(FromPcg(pcg, bits), "from_pcg", pcg, b, r)

InitExt ==
    \E bits \in CheckedBits, b \in {"debug", "release"} :
       \/ \E pcg \in ExtEngines : ExtConstructed(pcg, bits, b, "ext")
       \/ ExtConstructedBy(ExtNewUnseeded(Pcg32Type, bits), "new_unseeded",
                           NewUnseeded(Pcg32Type, AddrA), b, "ext")

\* The last ext_size picks, the newest last.
Window(w, p, n) == IF Len(w) < n THEN Append(w, p) ELSE Append(Tail(w), p)

\* One call of next_u32 of the extended generator, and one of the unwrapped
\* engine.  A call that panics has selected its slot and has updated the
\* state of the engine before it panics; the caller keeps the last value
\* that was returned.
ExtDraw ==
    /\ draws < MaxExtDraws
    /\ ra' = ExtNextGen(ra, build)
    /\ IF ExtNextReturns(ra, build)
       THEN lasta' = ExtNextOutput(ra) /\ outcome' = "ok"
       ELSE lasta' = lasta /\ outcome' = "panic"
    /\ rb' = NextGen(rb)
    /\ lastb' = NextOutput(rb)
    /\ picks' = Window(picks, ExtPick(ra), ExtSizeOf(ra.size))
    /\ draws' = draws + 1
    /\ agree' = (agree /\ ExtNextReturns(ra, build) /\ ExtNextOutput(ra) = NextOutput(rb))
    /\ pos' = WrappingAdd(pos, One(Len(pos)))
    /\ op' = [name |-> "next", arg |-> ExtPick(ra)]
    /\ UNCHANGED <<rel, start, refok, nops, visited, period, build, features,
                   seeder, seed, record,
                   counts>>

NextExt == ExtDraw

SpecExt == InitExt /\ [][NextExt]_vars

\* The values the first n calls of next_u32 of g return, a call at a time.
RECURSIVE FirstOutputs(_, _)
FirstOutputs(g, n) ==
    IF n = 0 THEN <<>> ELSE <<NextOutput(g)>> \o FirstOutputs(NextGen(g), n - 1)

\* The generator after n calls of next_u32, a call at a time.
RECURSIVE AfterCalls(_, _)
AfterCalls(g, n) == IF n = 0 THEN g ELSE AfterCalls(NextGen(g), n - 1)

\* C21 (extension construction): after from_pcg(engine) the array holds
\* 2^k values, the first 2^k outputs of the engine in their order, and the
\* wrapped engine is the given one after 2^k calls of next; new_unseeded is
\* from_pcg of the unseeded engine.
ExtensionConstruction ==
    op.name \in {"from_pcg", "new_unseeded"} =>
        LET given == IF op.name = "from_pcg" THEN op.arg
                     ELSE NewUnseeded(Pcg32Type, AddrA)
            n     == 2 ^ ra.size
        IN  /\ Len(ra.ext) = n
            /\ ra.ext = FirstOutputs(given, n)
            /\ ra.pcg = AfterCalls(given, n)
            /\ ra.pcg.state # given.state

\* Ext8 made from a seeded engine: eight slots, the engine eight calls on.
ExtensionConstructionWitness ==
    /\ rel = "ext"
    /\ op.name = "from_pcg"
    /\ op.arg.state = FromUsize(8, 11)
    /\ ra.size = 3
    /\ Len(ra.ext) = 8
    /\ ra.ext[8] # ra.ext[1]
    /\ ra.pcg.stream_mix = op.arg.stream_mix

\* C22 (extension indexing safety): the size of each of Ext2..Ext1024 is 2
\* to the power of its bits; the array of an extended generator has the
\* length of its size type, the length it was constructed with, and the
\* slot a call of next selects is below that length.
ExtensionIndexing ==
    /\ \A b \in ExtBits : ExtSizeOf(b) = 2 ^ b
    /\ rel = "ext" =>
          /\ Len(ra.ext) = ExtSizeOf(ra.size)
          /\ Len(ra.ext) = Len(start.ext)
          /\ ra.size = start.size
          /\ op.name = "next" => (op.arg \in 0..(Len(ra.ext) - 1))
          /\ ExtPick(ra) < Len(ra.ext)

\* The last slot of eight has been selected.
ExtensionIndexingWitness ==
    /\ rel = "ext"
    /\ ra.size = 3
    /\ op.name = "next"
    /\ op.arg = 7
    /\ Len(ra.ext) = 8

\* C19 (extended next): a call advances the state of the engine as the
\* unwrapped engine's next does, so that the two states stay the same, and
\* a call that returns returns the output of the state before the call
\* XOR the slot selected by the low bits of the state after the call, as
\* the slot was before the call.
ExtendedNext ==
    [][LET mask == Pow2(ra.size) - 1
           pick == ra'.pcg.state[1] % (mask + 1)
       IN  /\ ra'.pcg.state = LcgStep(ra.pcg.state, Increment(ra.pcg.stream_mix),
                                      Multiplier(ra.pcg.mul_mix, 8))
           /\ ra'.pcg = rb'
           /\ op'.arg = pick
           /\ outcome' = "ok" =>
                 lasta' = BitXor(Output(ra.pcg.out_mix, ra.pcg.state, 4),
                                 ra.ext[pick + 1])]_vars

\* A call has returned a value that is not the unwrapped engine's, from a
\* slot other than the first, the engines in the same state.
ExtendedNextWitness ==
    /\ rel = "ext"
    /\ draws >= 2
    /\ outcome = "ok"
    /\ op.arg > 0
    /\ lasta # lastb
    /\ ra.pcg = rb

\* C20 (slot increment wraps): when the selected slot holds the largest
\* value of its type, the call returns its output and leaves the slot at
\* zero, the other slots as they were.
SlotIncrementWraps ==
    [][LET pick == ra'.pcg.state[1] % Pow2(ra.size)
       IN  ra.ext[pick + 1] = SlotMax(4) =>
              /\ outcome' = "ok"
              /\ lasta' = BitXor(Output(ra.pcg.out_mix, ra.pcg.state, 4), SlotMax(4))
              /\ ra'.ext = [ra.ext EXCEPT ![pick + 1] = Zero(4)]]_vars

\* C17 (no partial failure): a call that fails leaves the generator as it
\* was before the call: the state of the engine and every slot.
NoPartialFailure ==
    [][outcome' = "panic" => ra' = ra]_vars

\* C13 (slot visiting frequency): among any ext_size consecutive draws
\* (the increment odd, the multiplier the default one) every slot of the
\* array is selected, hence exactly once.
SlotFrequency ==
    Len(picks) = ExtSizeOf(ra.size) =>
        {picks[i] : i \in 1..Len(picks)} = 0..(ExtSizeOf(ra.size) - 1)

\* Eight slots, and a window of eight draws well after the first.
SlotFrequencyWitness ==
    /\ rel = "ext"
    /\ ra.size = 3
    /\ draws = MaxExtDraws
    /\ Len(picks) = 8
    /\ IsOdd(Increment(ra.pcg.stream_mix))
    /\ ra.pcg.mul_mix = "Default"
    /\ Cardinality({picks[i] : i \in 1..Len(picks)}) = 8

(***************************************************************************)
(* The period of an extended generator, on a u16 state with u8 slots       *)
(***************************************************************************)

\* The engine of the extended generators (SpecificSeq stream, default
\* multiplier, XshRr output) over a u16 state and a u8 output.
NarrowExtType == EngineType(2, 1, "SpecificSeq", "Default", "XshRr")

InitExtPeriod ==
    \E s \in {<<25, 170>>}, c \in {<<1, 0>>, <<216, 79>>} :
       ExtConstructed(FromSeed(NarrowExtType, s, c, AddrA), 1, "release", "ext-period")

\* One call of next of the extended generator; the first return of the
\* pair (state of the engine, array) to its value after construction is
\* dated.
ExtPerStep ==
    /\ draws < StateCount(Len(ra.pcg.state))
    /\ ra' = ExtNextGen(ra, build)
    /\ lasta' = ExtNextOutput(ra)
    /\ draws' = draws + 1
    /\ period' = IF period = 0 /\ ExtNextGen(ra, build) = start
                 THEN draws + 1 ELSE period
    /\ pos' = WrappingAdd(pos, One(Len(pos)))
    /\ op' = [name |-> "next", arg |-> ExtPick(ra)]
    /\ UNCHANGED others
    /\ UNCHANGED <<rb, lastb, agree, rel, start, refok, outcome, nops, visited>>

NextExtPeriod == ExtPerStep

SpecExtPeriod == InitExtPeriod /\ [][NextExtPeriod]_vars

SeedSizes == {1, 2, 4, 8, 16}

\* `v as T` for a wider T of n bytes (u128::from).
Widen(v, n) == [i \in 1..n |-> IF i <= Len(v) THEN v[i] ELSE 0]

\* LE::write_u16 / write_u32 / write_u64: the byte i of the destination is
\* (v >> 8 i) & 0xff, the lowest first.
LEWrite(v) == [i \in 1..Len(v) |-> Shrink(Shr(v, 8 * (i - 1)), 1)[1]]

\* LE::read_u16 / read_u32 / read_u64: the bytes src[i] << 8 i, combined.
RECURSIVE LEReadFrom(_, _, _)
LEReadFrom(src, n, i) ==
    IF i > n THEN Zero(n)
    ELSE BitOr(Shl(Widen(<<src[i]>>, n), 8 * (i - 1)), LEReadFrom(src, n, i + 1))

LERead(src, n) == LEReadFrom(src, n, 1)

\* ReadByteOrder::write: the bytes written to the destination.  A u128 is
\* written as its top 64 bits followed by its bottom 64 bits.
CodecWrite(v) ==
    IF Len(v) = 1 THEN <<v[1]>>
    ELSE IF Len(v) = 16
         THEN LET top    == Shrink(Shr(v, 64), 8)
                  bottom == Shrink(v, 8)
              IN  LEWrite(top) \o LEWrite(bottom)
         ELSE LEWrite(v)

\* ReadByteOrder::read of a value of n bytes from the bytes src.
CodecRead(src, n) ==
    IF n = 1 THEN <<src[1]>>
    ELSE IF n = 16
         THEN LET top    == Widen(LERead(src, 8), 16)
                  bottom == Widen(LERead(SubSeq(src, 9, Len(src)), 8), 16)
              IN  BitOr(Shl(top, 64), bottom)
         ELSE LERead(src, n)

\* A faulty seed_with_stream: the two halves of the buffer exchanged.
SeedWithStreamSwapped(s, c) ==
    [data |-> CodecWrite(c) \o CodecWrite(s), at_pos |-> 0, size |-> Len(s)]

\* PcgSeeder::seed_with_stream: a buffer of 2 * size_of::<T>() bytes, the
\* seed written to its first half and the stream to its second half.
SeedWithStream(s, c) ==
    LET data        == [i \in 1..(Len(s) * 2) |-> 0]
        seed_data   == SubSeq(data, 1, Len(s))
        stream_data == SubSeq(data, Len(s) + 1, Len(data))
        write(v, dest) == [i \in 1..Len(dest) |->
                             IF i <= Len(CodecWrite(v)) THEN CodecWrite(v)[i] ELSE dest[i]]
    IN  [data |-> write(s, seed_data) \o write(c, stream_data), at_pos |-> 0,
         size |-> Len(s)]

\* PcgSeeder::seed
SeedOnly(s) == SeedWithStream(s, Zero(Len(s)))

\* A faulty test of get: it fails when just the bytes of one value remain.
SeederGetReturnsStrict(sd) == ~(sd.size >= Len(sd.data) - sd.at_pos)

\* PcgSeeder::get returns: it panics when size_of::<T>() is more than the
\* bytes left.
SeederGetReturns(sd) == ~(sd.size > Len(sd.data) - sd.at_pos)

\* The value PcgSeeder::get returns.
SeederGetValue(sd) == CodecRead(SubSeq(sd.data, sd.at_pos + 1, Len(sd.data)), sd.size)

\* The seeder after PcgSeeder::get has returned.
SeederGet(sd) == [sd EXCEPT !.at_pos = sd.at_pos + sd.size]

MaxGets == 3

\* The values the seeders are made from: zero, the largest value, a value
\* whose bytes all differ, and the default seeds.
SeederValues(n) ==
    {Zero(n), AllOnes(n), [i \in 1..n |-> (17 * i + n) % 256]} \cup
    (IF n <= 8 THEN {DefaultSeedState(n), DefaultSeedStream(n)} ELSE {})

\* The bytes a caller can overwrite the buffer with through as_mut.
FillBytes == {0, 171}

\* The state after a seeder has been constructed from (s, c).
SeederConstructed(sd, s, c, name) ==
    /\ seeder = sd
    /\ seed = <<s, c>>
    /\ ra = NoArg
    /\ rb = NoArg
    /\ lasta = <<>>
    /\ lastb = <<>>
    /\ draws = 0
    /\ agree = TRUE
    /\ rel = "seeder"
    /\ start = NoArg
    /\ pos = NoArg
    /\ refok = TRUE
    /\ op = [name |-> name, arg |-> NoArg]
    /\ outcome = "ok"
    /\ nops = 0
    /\ visited = {}
    /\ period = 0
    /\ build \in {"debug", "release"}
    /\ features = {}
    /\ picks = <<>>
    /\ record = NoArg
    /\ counts = <<>>

InitSeeder ==
    \E n \in SeedSizes :
       \E s \in SeederValues(n) :
          \/ SeederConstructed(SeedOnly(s), s, Zero(n), "seed")
          \/ \E c \in SeederValues(n) :
                SeederConstructed(SeedWithStream(s, c), s, c, "seed_with_stream")

\* seeder.get(): nops counts the calls, draws those that returned, and
\* lasta is the last value returned.
SdGet ==
    /\ nops < MaxGets
    /\ IF SeederGetReturns(seeder)
       THEN /\ lasta' = SeederGetValue(seeder)
            /\ seeder' = SeederGet(seeder)
            /\ draws' = draws + 1
            /\ outcome' = "ok"
       ELSE /\ UNCHANGED <<lasta, seeder, draws>>
            /\ outcome' = "panic"
    /\ nops' = nops + 1
    /\ op' = [name |-> "get", arg |-> NoArg]
    /\ UNCHANGED <<ra, rb, lastb, agree, rel, start, pos, refok, visited, period,
                   build, features, picks, seed, record,
                   counts>>

\* seeder.as_mut(): the caller overwrites the bytes of the buffer (as the
\* seeding from another generator does); the seeder no longer holds the
\* pair it was made from.
SdAsMut ==
    /\ op.name # "as_mut"
    /\ \E b \in FillBytes :
          /\ seeder' = [seeder EXCEPT !.data = [i \in 1..Len(seeder.data) |-> b]]
          /\ op' = [name |-> "as_mut", arg |-> b]
    /\ seed' = NoArg
    /\ outcome' = "ok"
    /\ UNCHANGED <<ra, rb, lasta, lastb, draws, agree, rel, start, pos, refok, nops,
                   visited, period, build, features, picks, record,
                   counts>>

NextSeeder == SdGet \/ SdAsMut

SpecSeeder == InitSeeder /\ [][NextSeeder]_vars

\* C14 (seed codec round trip and layout): a seeder made from (s, c), its
\* buffer not overwritten since, holds 2 * sizeof(T) bytes, the first half
\* decoding to s and the second half to c; its first get returns s and its
\* second get returns c; seed(s) makes the seeder seed_with_stream(s, 0)
\* makes.
SeedRoundTrip ==
    seed # NoArg =>
        LET n == Len(seed[1])
        IN  /\ Len(seeder.data) = 2 * n
            /\ CodecRead(SubSeq(seeder.data, 1, n), n) = seed[1]
            /\ CodecRead(SubSeq(seeder.data, n + 1, 2 * n), n) = seed[2]
            /\ (op.name = "get" /\ draws = 1 /\ nops = 1) => lasta = seed[1]
            /\ (op.name = "get" /\ draws = 2 /\ nops = 2) => lasta = seed[2]
            /\ seed[2] = Zero(n) =>
                  seeder.data = SubSeq(seeder.data, 1, n) \o [i \in 1..n |-> 0]

\* A u128 seeder whose two values differ in every byte, read twice.
SeedRoundTripWitness ==
    /\ rel = "seeder"
    /\ seed # NoArg
    /\ seeder.size = 16
    /\ seed[1] = [i \in 1..16 |-> (17 * i + 16) % 256]
    /\ seed[2] = AllOnes(16)
    /\ draws = 2
    /\ lasta = seed[2]

\* C15 (seed exhaustion): the first two calls of get return and every
\* later call panics, returning nothing and reading nothing; a call panics
\* exactly when fewer than sizeof(T) bytes were left; the read position is
\* never beyond the end of the buffer.
SeedExhaustion ==
    /\ seeder.at_pos <= Len(seeder.data)
    /\ seeder.at_pos = draws * seeder.size
    /\ draws = IF nops <= 2 THEN nops ELSE 2
    /\ (op.name = "get" /\ outcome = "panic") =>
          Len(seeder.data) - seeder.at_pos < seeder.size
    /\ (op.name = "get" /\ outcome = "ok") => Len(lasta) = seeder.size

\* The third call of get has panicked, the position at the end.
SeedExhaustionWitness ==
    /\ rel = "seeder"
    /\ op.name = "get"
    /\ nops = 3
    /\ draws = 2
    /\ outcome = "panic"
    /\ seeder.at_pos = Len(seeder.data)

(***************************************************************************)
(* Serialized generators (serialization.rs, custom_serialize.rs)           *)
(***************************************************************************)

\* The tag of the algorithm of a generator type.
AlgorithmTag(ty) == <<ty.stream, ty.mul, ty.mix>>

IsMcgTag(tag) == tag[2] = "Mcg"

\* The type of a generator.
TypeOf(g) == EngineType(Len(g.state), g.xtype, g.stream_mix.kind, g.mul_mix, g.out_mix)

\* The serialized record of a generator.
StateInfo(s, c, tag) == [state |-> s, stream |-> c, algorithm |-> tag]

\* get_state: the record of a generator, whose stream is its increment.
GetState(g) == StateInfo(g.state, Increment(g.stream_mix), AlgorithmTag(TypeOf(g)))

Ok(g) == [ok |-> TRUE, gen |-> g]
Err(why) == [ok |-> FALSE, gen |-> NoArg, error |-> why]

\* restore_state_with_no_verification: the generator of the record, its
\* stream set by set_stream (the one way the increment of a
\* SpecificSeqStream is set).
RestoreStateWithNoVerification(ty, rec) ==
    [state      |-> rec.state,
     out_mix    |-> ty.mix,
     stream_mix |-> SetStream(StreamBuild(ty.stream, ty.itype, AddrB), rec.stream),
     mul_mix    |-> ty.mul,
     xtype      |-> ty.xtype]

\* restore_state: a record of another algorithm, or one whose stream is
\* even for an algorithm other than MCG, is an error.
RestoreState(ty, rec) ==
    IF rec.algorithm # AlgorithmTag(ty) THEN Err("algorithm")
    ELSE IF ~IsMcgTag(rec.algorithm) /\ ~IsOdd(rec.stream) THEN Err("stream")
    ELSE Ok(RestoreStateWithNoVerification(ty, rec))

\* A faulty deserialize: the record is never verified.
DeserializeUnverified(ty, rec, feats) == Ok(RestoreStateWithNoVerification(ty, rec))

\* Deserialize::deserialize of a generator with a SpecificSeqStream: with
\* the feature no_deserialize_verify the record is restored without
\* verification, without it restore_state decides.
Deserialize(ty, rec, feats) ==
    IF "no_deserialize_verify" \in feats
    THEN Ok(RestoreStateWithNoVerification(ty, rec))
    ELSE RestoreState(ty, rec)

\* Pcg32Visitor::visit_map of the earlier serialization of Pcg32: the
\* record holds a state and a stream, and new_from_state is always called.
VisitMap(rec) == Ok(RestoreStateWithNoVerification(Pcg32Type, rec))

\* The generator types Deserialize is implemented for.
SerdeTypes == {ty \in LibTypes : ty.stream = "SpecificSeq"}

\* The records read from outside: of the algorithm of the target, of the
\* other algorithms, with even and odd streams.
Records ==
    {StateInfo(s, c, AlgorithmTag(ty)) :
        s \in {Zero(8), FromUsize(8, 11)},
        c \in {Zero(8), FromUsize(8, 12), FromUsize(8, 13), AllOnes(8),
               [i \in 1..8 |-> IF i = 1 THEN 254 ELSE 255]},
        ty \in SerdeTypes \cup {EngineType(8, 4, "NoSeq", "Mcg", "XshRr")}}

\* The state after the generator g has been constructed in a build with
\* the features f.
SerdeConstructed(g, f) ==
    /\ ra = g
    /\ rb = NoArg
    /\ lasta = <<>>
    /\ lastb = <<>>
    /\ draws = 0
    /\ agree = TRUE
    /\ rel = "serde"
    /\ start = g.state
    /\ pos = Zero(Len(g.state))
    /\ refok = TRUE
    /\ op = [name |-> "new", arg |-> NoArg]
    /\ outcome = "ok"
    /\ nops = 0
    /\ visited = {}
    /\ period = 0
    /\ build = "release"
    /\ features = f
    /\ picks = <<>>
    /\ seeder = NoSeeder
    /\ seed = NoArg
    /\ record = NoArg
    /\ counts = <<>>

InitSerde ==
    \E ty \in SerdeTypes, f \in {{}, {"no_deserialize_verify"}} :
       \/ SerdeConstructed(NewUnseeded(ty, AddrA), f)
       \/ SerdeConstructed(FromSeed(ty, FromUsize(8, 11), FromUsize(8, 12), AddrA), f)

\* ra is serialized: the record is the one of its state.
SerSerialize ==
    /\ record # GetState(ra)
    /\ record' = GetState(ra)
    /\ op' = [name |-> "serialize", arg |-> NoArg]
    /\ outcome' = "ok"
    /\ UNCHANGED <<ra, rb, lasta, lastb, draws, agree, rel, start, pos, refok, nops,
                   visited, period, build, features, picks, seeder, seed,
                   counts>>

\* The outcome of a deserialization of rec with the result res: rb is the
\* generator produced, if one is.
Restored(rec, res, name, arg) ==
    /\ record' = rec
    /\ rb' = res.gen
    /\ outcome' = IF res.ok THEN "ok" ELSE "error"
    /\ op' = [name |-> name, arg |-> arg]
    /\ draws' = 0
    /\ lastb' = <<>>
    /\ UNCHANGED <<ra, lasta, agree, rel, start, pos, refok, nops, visited, period,
                   build, features, picks, seeder, seed,
                   counts>>

\* A generator of the type ty is deserialized from the record last
\* serialized or from a record read from outside.
SerDeserialize ==
    \E ty \in SerdeTypes, rec \in Records \cup ({record} \ {NoArg}) :
       Restored(rec, Deserialize(ty, rec, features), "deserialize", ty)

\* A Pcg32 is deserialized by the earlier visitor.
SerVisitMap ==
    \E rec \in Records :
       Restored(rec, VisitMap(rec), "visit_map", Pcg32Type)

\* A draw from the generator deserialized.
SerDraw ==
    /\ rb # NoArg
    /\ draws < MaxDraws
    /\ lastb' = NextOutput(rb)
    /\ rb' = NextGen(rb)
    /\ draws' = draws + 1
    /\ UNCHANGED <<ra, lasta, agree, rel, start, pos, refok, op, outcome, nops,
                   visited, period, build, features, picks, seeder, seed, record,
                   counts>>

NextSerde == SerSerialize \/ SerDeserialize \/ SerVisitMap \/ SerDraw

SpecSerde == InitSerde /\ [][NextSerde]_vars

MaxMixDraws == 5

\* The pairs (bytes of Itype, bytes of Xtype) AsSmaller is implemented for.
MixPairs ==
    {<<8, 4>>, <<8, 2>>, <<8, 1>>, <<4, 2>>, <<4, 1>>, <<2, 1>>, <<16, 8>>, <<16, 4>>}

MixNames == {"XshRs", "XshRr", "DXsM"}

\* The states the permutations are applied to: zero, the largest, states
\* with only high bits set, and states whose bytes all differ.
MixStates(n) ==
    {Zero(n), AllOnes(n), FromUsize(n, 11),
     [i \in 1..n |-> (17 * i + n) % 256],
     [i \in 1..n |-> (211 * i + 96) % 256],
     [i \in 1..n |-> IF i = n THEN 128 ELSE 0],
     [i \in 1..n |-> IF i = n THEN 248 ELSE IF i = 1 THEN 1 ELSE 0]}

\* The multipliers given to the permutations, odd ones.
MixMultipliers(n) ==
    {[i \in 1..n |-> IF i = 1 THEN 141 ELSE (37 * i) % 256],
     [i \in 1..n |-> IF i = 1 THEN 5 ELSE 0]}

MixIncrements(n) == {One(n), [i \in 1..n |-> IF i = 1 THEN 253 ELSE 255]}

\* An engine of the permutation mix over a state of Len(s) bytes.
MixEngine(mix, s, inc, m, xn) ==
    [state |-> s, out_mix |-> mix, xtype |-> xn, increment |-> inc, multiplier |-> m]

InitMix ==
    \E pr \in MixPairs, mix \in MixNames :
       \E s \in MixStates(pr[1]), m \in MixMultipliers(pr[1]), inc \in MixIncrements(pr[1]) :
          /\ ra = MixEngine(mix, s, inc, m, pr[2])
          /\ rb = MixEngine(mix, s, inc, m, pr[2])
          /\ lasta = <<>>
          /\ lastb = <<>>
          /\ draws = 0
          /\ agree = TRUE
          /\ rel = "mix"
          /\ start = s
          /\ pos = Zero(pr[1])
          /\ refok = TRUE
          /\ op = [name |-> "new", arg |-> NoArg]
          /\ outcome = "ok"
          /\ nops = 0
          /\ visited = {}
          /\ period = 0
          /\ build = "release"
          /\ features = {}
          /\ picks = <<>>
          /\ seeder = NoSeeder
          /\ seed = NoArg
          /\ record = NoArg
          /\ counts = <<>>

\* One draw: the output of the state, which is then advanced; rb is the
\* engine as it was before the draw.
MixDraw ==
    /\ draws < MaxMixDraws
    /\ lasta' = MixOutput(ra.out_mix, ra.state, ra.increment, ra.multiplier, ra.xtype)
    /\ ra' = [ra EXCEPT !.state = LcgStep(ra.state, ra.increment, ra.multiplier)]
    /\ rb' = ra
    /\ draws' = draws + 1
    /\ pos' = WrappingAdd(pos, One(Len(pos)))
    /\ op' = [name |-> "next", arg |-> NoArg]
    /\ UNCHANGED others
    /\ UNCHANGED <<lastb, agree, rel, start, refok, outcome, nops, visited, period>>

NextMix == MixDraw

SpecMix == InitMix /\ [][NextMix]_vars

\* The value v, computed once before it is used.
Computed(v) == IF v = v THEN v ELSE v

\* The bit i (0 = lowest) of a, zero above the width.
BitAt(a, i) == IF i < Bits(a) THEN BitOf(a, i) ELSE 0

\* The value of xn bytes whose bit i is f[i].
FromBits(f, xn) ==
    Computed([j \in 1..xn |->
        f[8 * (j - 1)] + 2 * f[8 * (j - 1) + 1] + 4 * f[8 * (j - 1) + 2]
          + 8 * f[8 * (j - 1) + 3] + 16 * f[8 * (j - 1) + 4] + 32 * f[8 * (j - 1) + 5]
          + 64 * f[8 * (j - 1) + 6] + 128 * f[8 * (j - 1) + 7]])

\* The value of the top k bits of a (k <= 7).
RECURSIVE TopBits(_, _)
TopBits(a, k) ==
    IF k = 0 THEN 0
    ELSE BitAt(a, Bits(a) - 1) * (2 ^ (k - 1)) + TopBits(Computed(Shl(a, 1)), k - 1)

\* a XOR (a >> k), bit by bit, as a function of the bit number.
XorShifted(a, k) ==
    Computed([i \in 0..(Bits(a) - 1) |-> (BitAt(a, i) + BitAt(a, i + k)) % 2])

\* (a * b) mod 2^Bits(a), as the sum of a << i over the bits i of b.
RECURSIVE ShiftSum(_, _, _, _)
ShiftSum(a, b, lo, hi) ==
    IF lo = hi
    THEN IF BitAt(b, lo) = 1 THEN Computed(Shl(a, lo)) ELSE Zero(Len(a))
    ELSE LET mid  == (lo + hi) \div 2
             left == ShiftSum(a, b, lo, mid)
         IN  IF left = left THEN WrappingAdd(left, ShiftSum(a, b, mid + 1, hi))
             ELSE left

MulByShifts(a, b, i) == ShiftSum(a, b, i, Bits(a) - 1)

\* C23 (XshRs output): with sparebits = W - X, opbits by the thresholds
\* 69 / 36 / 19 / 6 / 2, mask = 2^opbits - 1 and rshift the top opbits bits
\* of the state, the output is the low X bits of
\* (s XOR (s >> (opbits + (X + mask) / 2))) >> (sparebits - opbits - mask + rshift);
\* for W = 64, X = 32 the shifts are 22 and 22 + (s >> 61); no subtraction
\* goes below zero.
XshRsFormula ==
    (op.name = "next" /\ rb.out_mix = "XshRs") =>
        LET s         == rb.state
            W         == Bits(s)
            X         == 8 * rb.xtype
            sparebits == W - X
            opbits    == IF sparebits >= 69 THEN 5 ELSE IF sparebits >= 36 THEN 4
                         ELSE IF sparebits >= 19 THEN 3 ELSE IF sparebits >= 6 THEN 2
                         ELSE IF sparebits >= 2 THEN 1 ELSE 0
            mask      == (2 ^ opbits) - 1
            rshift    == TopBits(s, opbits)
            xshift    == opbits + ((X + mask) \div 2)
            shift     == sparebits - opbits - mask + rshift
            t         == XorShifted(s, xshift)
        IN  /\ X < W
            /\ sparebits >= 5
            /\ sparebits - opbits - mask >= 0
            /\ shift + X <= W
            /\ lasta = FromBits([j \in 0..(X - 1) |-> t[j + shift]], rb.xtype)
            /\ (W = 64 /\ X = 32) =>
                  (xshift = 22 /\ shift = 22 + TopBits(s, 3))

\* A 64/32 state whose top three bits are set: the shift is 22 + 7.
XshRsFormulaWitness ==
    /\ rel = "mix"
    /\ op.name = "next"
    /\ rb.out_mix = "XshRs"
    /\ Len(rb.state) = 8
    /\ rb.xtype = 4
    /\ TopBits(rb.state, 3) = 7
    /\ lasta # Zero(4)

\* C24 (XshRr output): with opbits = min(W - X, wanted), wanted 7 / 6 / 5 /
\* 4 / 3 by the width of the output, the rotation is the top opbits bits of
\* the state shifted left by wanted - opbits and masked by 2^opbits - 1, it
\* is below X, and the output is the low X bits of
\* (s XOR (s >> ((opbits + X) / 2))) >> (W - X - opbits) rotated right by it;
\* for W = 64, X = 32 the shifts are 18 and 27 and the rotation is s >> 59.
XshRrFormula ==
    (op.name = "next" /\ rb.out_mix = "XshRr") =>
        LET s      == rb.state
            W      == Bits(s)
            X      == 8 * rb.xtype
            wanted == IF X >= 128 THEN 7 ELSE IF X >= 64 THEN 6 ELSE IF X >= 32 THEN 5
                      ELSE IF X >= 16 THEN 4 ELSE 3
            opbits == IF W - X < wanted THEN W - X ELSE wanted
            rot    == (TopBits(s, opbits) * (2 ^ (wanted - opbits))) % (2 ^ opbits)
            xshift == (opbits + X) \div 2
            bottom == W - X - opbits
            t      == XorShifted(s, xshift)
        IN  /\ rot < X
            /\ bottom >= 0
            /\ lasta = FromBits([j \in 0..(X - 1) |-> t[((j + rot) % X) + bottom]],
                                rb.xtype)
            /\ (W = 64 /\ X = 32) =>
                  (xshift = 18 /\ bottom = 27 /\ rot = TopBits(s, 5))

\* A 64/32 state rotated by 31.
XshRrFormulaWitness ==
    /\ rel = "mix"
    /\ op.name = "next"
    /\ rb.out_mix = "XshRr"
    /\ Len(rb.state) = 8
    /\ rb.xtype = 4
    /\ TopBits(rb.state, 5) = 31
    /\ lasta # Zero(4)

\* C25 (DXsM output): with hi the top X bits of the state and lo its low X
\* bits OR 1, the output is ((h2 XOR (h2 >> (3X/4))) * lo) mod 2^X, where
\* h2 = ((hi XOR (hi >> (X/2))) * (m mod 2^X)) mod 2^X; lo is odd; the
\* increment takes no part.
DXsMFormula ==
    (op.name = "next" /\ rb.out_mix = "DXsM") =>
        LET s  == rb.state
            xn == rb.xtype
            X  == 8 * xn
            W  == Bits(s)
            hi == FromBits([j \in 0..(X - 1) |-> BitAt(s, j + W - X)], xn)
            lo == FromBits([j \in 0..(X - 1) |-> IF j = 0 THEN 1 ELSE BitAt(s, j)], xn)
            m  == FromBits([j \in 0..(X - 1) |-> BitAt(rb.multiplier, j)], xn)
            h1 == FromBits(XorShifted(hi, X \div 2), xn)
            h2 == MulByShifts(h1, m, 0)
            h3 == FromBits(XorShifted(h2, (3 * X) \div 4), xn)
        IN  /\ IsOdd(lo)
            /\ lasta = MulByShifts(h3, lo, 0)
            /\ lasta = MixOutput("DXsM", s, WrappingAdd(rb.increment, FromUsize(Len(s), 2)),
                                 rb.multiplier, xn)

\* A state with an even low half, on the widest pair.
DXsMFormulaWitness ==
    /\ rel = "mix"
    /\ op.name = "next"
    /\ rb.out_mix = "DXsM"
    /\ Len(rb.state) = 16
    /\ rb.xtype = 8
    /\ ~IsOdd(rb.state)
    /\ lasta # Zero(8)

(***************************************************************************)
(* Jump-ahead called several times in a row                                *)
(***************************************************************************)

MaxComposed == 2

ComposeTypes ==
    { EngineType(2, 1, "SpecificSeq", "Default", "XshRr"),
      EngineType(8, 4, "SpecificSeq", "Default", "XshRr"),
      EngineType(8, 4, "NoSeq", "Mcg", "XshRs") }

\* The deltas of the calls: zero, small ones, the largest (one step back),
\* and ones whose sums carry between the bytes and wrap around.
ComposeDeltas(n) ==
    {Zero(n), FromUsize(n, 2), FromUsize(n, ShortAdvance), AllOnes(n),
     [i \in 1..n |-> IF i = n THEN 128 ELSE 255]}

\* rb stays the generator as constructed.
InitCompose ==
    \E ty \in ComposeTypes :
       \E s \in SeedStates(ty.itype), c \in {FromUsize(ty.itype, 12)} :
          Constructed(FromSeed(ty, s, c, AddrA), FromSeed(ty, s, c, AddrA), "compose")

\* ra.advance(d)
CmpAdvance ==
    /\ nops < MaxComposed
    /\ \E d \in ComposeDeltas(Len(ra.state)) :
          /\ ra' = Advance(ra, d)
          /\ pos' = WrappingAdd(pos, d)
          /\ op' = [name |-> "advance", arg |-> d]
    /\ outcome' = "ok"
    /\ nops' = nops + 1
    /\ UNCHANGED others
    /\ UNCHANGED <<rb, lasta, lastb, draws, agree, rel, start, refok, visited, period>>

NextCompose == CmpAdvance

SpecCompose == InitCompose /\ [][NextCompose]_vars

\* C29 (advance composes): after advance(a) and then advance(b) the state
\* is the one advance((a + b) mod 2^W) gives from the same start, and after
\* any number of calls the one advance by the wrapped sum of the deltas gives;
\* advance(0) leaves the state as it was; advance leaves the stream as it
\* was.
AdvanceComposes ==
    [][ op'.name = "advance" =>
           /\ ra'.state = Advance(rb, pos').state
           /\ (op.name = "advance" /\ nops = 1) =>
                 ra'.state = Advance(rb, WrappingAdd(op.arg, op'.arg)).state
           /\ ra'.stream_mix = ra.stream_mix
           /\ ra'.stream_mix = rb.stream_mix
           /\ op'.arg = Zero(Len(ra.state)) => ra'.state = ra.state ]_vars

\* advance(2) after advance(2^W - 1): one step on from the start.
AdvanceComposesWitness ==
    /\ rel = "compose"
    /\ nops = 2
    /\ Len(ra.state) = 8
    /\ op.name = "advance"
    /\ op.arg = FromUsize(8, 2)
    /\ pos = One(8)
    /\ ra.state = NextGen(rb).state
    /\ ra.state # start

(***************************************************************************)
(* The stream of a UniqueSeqStream at every address and width              *)
(***************************************************************************)

MaxUniqueOps == 2

\* The widths of Itype, in bytes: u8, u16, u32 and u64.
UniqueWidths == {1, 2, 4, 8}

\* Addresses of the stream: the structure has no fields, so it may lie at
\* any address, odd ones included.
StreamAddrs == {16, 255, AddrA, AddrA + 8, 65535, 65536 + AddrA}

UniqueType(n) == EngineType(n, 1, "UniqueSeq", "Default", "XshRr")

InitUniqueStream ==
    \E n \in UniqueWidths, a \in StreamAddrs :
       Constructed(NewUnseeded(UniqueType(n), a), NewUnseeded(UniqueType(n), a),
                   "unique-stream")

\* A call of name on the stream: the value is returned unless the unwrap
\* panics.
UniqueCall(name) ==
    /\ IF IncrementReturns(ra.stream_mix)
       THEN /\ lasta' = Increment(ra.stream_mix)
            /\ outcome' = "ok"
       ELSE /\ lasta' = lasta
            /\ outcome' = "panic"
    /\ op' = [name |-> name, arg |-> NoArg]
    /\ nops' = nops + 1
    /\ UNCHANGED others
    /\ UNCHANGED <<ra, rb, lastb, draws, agree, rel, start, pos, refok, visited,
                   period>>

\* stream_mix.increment()
UqIncrement ==
    /\ nops < MaxUniqueOps
    /\ UniqueCall("increment")

\* stream_mix.get_stream()
UqGetStream ==
    /\ nops < MaxUniqueOps
    /\ UniqueCall("get_stream")

\* The generator is moved to another address.
UqMove ==
    /\ nops < MaxUniqueOps
    /\ \E a \in StreamAddrs \ {ra.stream_mix.addr} :
          /\ ra' = [ra EXCEPT !.stream_mix.addr = a]
          /\ op' = [name |-> "move", arg |-> NoArg]
    /\ outcome' = "ok"
    /\ nops' = nops + 1
    /\ UNCHANGED others
    /\ UNCHANGED <<rb, lasta, lastb, draws, agree, rel, start, pos, refok,
                   visited, period>>

NextUniqueStream == UqIncrement \/ UqGetStream \/ UqMove

SpecUniqueStream == InitUniqueStream /\ [][NextUniqueStream]_vars

\* C30 (the unique stream is total): at every address and for every width
\* of Itype, increment and get_stream return (address | 1) converted to
\* Itype, an odd value, without failing.
UniqueStreamTotal ==
    (rel = "unique-stream" /\ op.name \in {"increment", "get_stream"}) =>
        /\ outcome = "ok"
        /\ lasta = IncrementOfAddress(ra.stream_mix)
        /\ IsOdd(lasta)

(***************************************************************************)
(* The outputs over every state.  An engine over a u16 state and a u8      *)
(* output, of full period, is drawn from until it is back at its first     *)
(* state, and the values it returns are counted.                           *)
(***************************************************************************)

UniformMixes == {"XshRs", "XshRr"}

UniformEngine(mix) ==
    [state      |-> <<25, 170>>,
     out_mix    |-> mix,
     stream_mix |-> [kind |-> "SpecificSeq", addr |-> AddrA, inc |-> <<217, 79>>],
     mul_mix    |-> "Default",
     xtype      |-> 1]

\* The number of values of n bytes.
ValueCount(n) == 2 ^ (8 * n)

\* 2^(W - X): the share of each output value among the states.
OutputShare(g) == 2 ^ (Bits(g.state) - 8 * g.xtype)

InitUniform ==
    \E mix \in UniformMixes :
       /\ ra = UniformEngine(mix)
       /\ rb = UniformEngine(mix)
       /\ lasta = <<>>
       /\ lastb = <<>>
       /\ draws = 0
       /\ agree = TRUE
       /\ rel = "uniform"
       /\ start = UniformEngine(mix).state
       /\ pos = Zero(2)
       /\ refok = TRUE
       /\ op = [name |-> "new", arg |-> NoArg]
       /\ outcome = "ok"
       /\ nops = 0
       /\ visited = {}
       /\ period = 0
       /\ build = "release"
       /\ features = {}
       /\ picks = <<>>
       /\ seeder = NoSeeder
       /\ seed = NoArg
       /\ record = NoArg
       /\ counts = [v \in 0..(ValueCount(1) - 1) |-> 0]

\* next of the engine; the value returned is counted.
UniDraw ==
    /\ draws < ValueCount(Len(ra.state))
    /\ lasta' = EngineOutput(ra)
    /\ ra' = EngineStep(ra)
    /\ counts' = [counts EXCEPT ![ToNat(EngineOutput(ra))] = @ + 1]
    /\ draws' = draws + 1
    /\ pos' = WrappingAdd(pos, One(Len(pos)))
    /\ op' = [name |-> "next", arg |-> NoArg]
    /\ UNCHANGED <<rb, lastb, agree, rel, start, refok, outcome, nops, visited,
                   period, build, features, picks, seeder, seed, record>>

NextUniform == UniDraw

SpecUniform == InitUniform /\ [][NextUniform]_vars

\* C28 (output uniformity): as the state takes each of its 2^W values once
\* (the engine is back at its first state after 2^W draws and not before),
\* XshRs and XshRr return every value of X bits exactly 2^(W - X) times: no
\* value is ever returned more often, and after the 2^W draws each has been
\* returned that often.
OutputUniformity ==
    rel = "uniform" =>
        /\ draws > 0 => counts[ToNat(lasta)] <= OutputShare(ra)
        /\ (draws > 0 /\ draws < ValueCount(Len(ra.state))) => ra.state # start
        /\ draws = ValueCount(Len(ra.state)) =>
              /\ ra.state = start
              /\ \A v \in DOMAIN counts : counts[v] = OutputShare(ra)

\* Every state has been drawn from through XshRs.
OutputUniformityWitness ==
    /\ rel = "uniform"
    /\ ra.out_mix = "XshRs"
    /\ draws = ValueCount(2)
    /\ OutputShare(ra) = ValueCount(1)
    /\ counts[0] = ValueCount(1)
    /\ counts[ValueCount(1) - 1] = ValueCount(1)

====
